---- MODULE Spec2Model ----
(***************************************************************************)
(* serverify: a configurable HTTP mock server that records every mock      *)
(* request under a session.  The model covers the request recorder         *)
(* (request_logger.rs) over its SQLite store, the mock router              *)
(* (mock_endpoint.rs) and the session control-plane (session_endpoint.rs). *)
(* Request handlers are concurrent tasks; every suspension point of a      *)
(* handler that touches the store is one action.                           *)
(***************************************************************************)
EXTENDS Integers, Sequences, FiniteSets, TLC

VARIABLES db, tx, task, calls, accepted, completed, snaps, server, world, lab

storeVars == <<db, tx>>
vars == <<db, tx, task, calls, accepted, completed, snaps, server, world, lab>>

(***************************************************************************)
(* Bounds and program constants                                            *)
(***************************************************************************)
\* Requests received in one behaviour.
MaxCalls == 3

\* The number of bits of the modelled usize.
UsizeBits == 6

\* The number of calls one caller makes on the recorder.
MaxOps == 6

\* The most methods one path of a configuration document has.
MaxMethods == 2

\* The longest list of value placeholder names given to parse.
MaxNames == 2

\* The number of expand calls on one template.
MaxExpands == 2

\* The number of items of a paging handler.
MaxItems == 5

\* Capacity bytes::BufMut reserves for the empty Vec that read_buf fills.
ReadBufCap == 64

\* The concurrent handler tasks.
Handlers == {"h1", "h2"}

(***************************************************************************)
(* Strings.  Session names are sequences of one-character strings so that  *)
(* the name pattern can be matched; Str joins them into a string.          *)
(***************************************************************************)
RECURSIVE Str(_)
Str(cs) == IF cs = <<>> THEN "" ELSE Head(cs) \o Str(Tail(cs))

Default == <<"d", "e", "f", "a", "u", "l", "t">>
S1 == <<"s", "1">>
S2 == <<"s", "2">>
Spaced == <<"a", " ", "b">>
N7 == <<"7">>
N07 == <<"0", "7">>
Empty == <<>>
Mixed == <<"a", "-", "B", "_", "9">>

Min(a, b) == IF a < b THEN a ELSE b

Range(s) == {s[i] : i \in 1..Len(s)}

\* The characters of the class [-a-zA-Z0-9_].
NameChars ==
    {"-", "_", "0", "1", "2", "3", "4", "5", "6", "7", "8", "9",
     "a", "b", "c", "d", "e", "f", "g", "h", "i", "j", "k", "l", "m",
     "n", "o", "p", "q", "r", "s", "t", "u", "v", "w", "x", "y", "z",
     "A", "B", "C", "D", "E", "F", "G", "H", "I", "J", "K", "L", "M",
     "N", "O", "P", "Q", "R", "S", "T", "U", "V", "W", "X", "Y", "Z"}

\* Variant: the pattern ^[-a-zA-Z0-9_]*$, which the empty name matches.
SessionNameIsMatchStar(name) == \A i \in 1..Len(name) : name[i] \in NameChars

\* SESSION_NAME_REGEX.is_match: ^[-a-zA-Z0-9_]+$
SessionNameIsMatch(name) ==
    Len(name) >= 1 /\ \A i \in 1..Len(name) : name[i] \in NameChars

(***************************************************************************)
(* Method                                                                  *)
(***************************************************************************)
Methods == {"Get", "Post", "Put", "Delete", "Patch"}

\* impl Display for Method
MethodToString(m) ==
    CASE m = "Get" -> "get"
      [] m = "Post" -> "post"
      [] m = "Put" -> "put"
      [] m = "Delete" -> "delete"
      [] m = "Patch" -> "patch"

\* impl TryFrom<&str> for Method
MethodTryFrom(s) ==
    CASE s = "get" -> [ok |-> TRUE, method |-> "Get", err |-> ""]
      [] s = "post" -> [ok |-> TRUE, method |-> "Post", err |-> ""]
      [] s = "put" -> [ok |-> TRUE, method |-> "Put", err |-> ""]
      [] s = "delete" -> [ok |-> TRUE, method |-> "Delete", err |-> ""]
      [] s = "patch" -> [ok |-> TRUE, method |-> "Patch", err |-> ""]
      [] OTHER -> [ok |-> FALSE, method |-> "", err |-> "unknown method: " \o s]

(***************************************************************************)
(* IndexMap<String, String>: a sequence of <<key, value>> pairs with       *)
(* distinct keys, in insertion order.                                      *)
(***************************************************************************)
IndexMapHas(m, k) == \E i \in 1..Len(m) : m[i][1] = k

\* insert: a new key is appended, an existing key keeps its position and
\* takes the new value.
IndexMapInsert(m, k, v) ==
    IF IndexMapHas(m, k)
    THEN [i \in 1..Len(m) |-> IF m[i][1] = k THEN <<k, v>> ELSE m[i]]
    ELSE Append(m, <<k, v>>)

\* collect::<IndexMap<_, _>>() over an iterator of pairs
RECURSIVE IndexMapCollectFrom(_, _)
IndexMapCollectFrom(m, pairs) ==
    IF pairs = <<>> THEN m
    ELSE IndexMapCollectFrom(IndexMapInsert(m, Head(pairs)[1], Head(pairs)[2]),
                             Tail(pairs))

IndexMapCollect(pairs) == IndexMapCollectFrom(<<>>, pairs)

(***************************************************************************)
(* The store: the four tables of SCHEMA and sqlite_sequence (seq), which   *)
(* AUTOINCREMENT uses so that a rowid is never given twice.  Rows of       *)
(* request_log carry two history fields that no query reads: the number of *)
(* the request that wrote the row and the session name it was logged       *)
(* under.                                                                  *)
(***************************************************************************)
EmptyDb ==
    [session |-> {}, request_log |-> {}, request_header |-> {},
     request_query |-> {},
     seq |-> [session |-> 0, request_log |-> 0, request_header |-> 0,
              request_query |-> 0]]

Digits == {"0", "1", "2", "3", "4", "5", "6", "7", "8", "9"}

RECURSIVE StripZeros(_)
StripZeros(cs) == IF Len(cs) > 1 /\ Head(cs) = "0" THEN StripZeros(Tail(cs)) ELSE cs

\* session.name is declared VARCBAR(255): the type names none of SQLite's
\* text types, so the column has NUMERIC affinity.  A text that is an
\* integer literal is stored, and compared, as that integer (written here
\* as its digits without leading zeros); any other text of the model stays
\* text.
NumericAffinity(name) ==
    IF Len(name) >= 1 /\ \A i \in 1..Len(name) : name[i] \in Digits
    THEN StripZeros(name)
    ELSE name

\* A table scan visits the rows in rowid order.
RECURSIVE SortedById(_)
SortedById(rows) ==
    IF rows = {} THEN <<>>
    ELSE LET r == CHOOSE r \in rows : \A q \in rows : r.id <= q.id
         IN <<r>> \o SortedById(rows \ {r})

\* Variant: the WHERE clause left out of the lookup.
SelectSessionIdAny(d, name) == {r.id : r \in d.session}

\* SELECT id FROM session WHERE name = ?
SelectSessionId(d, name) ==
    {r.id : r \in {q \in d.session : q.name = NumericAffinity(name)}}

SessionExists(d, name) == SelectSessionId(d, name) /= {}

\* Variant: the name column without UNIQUE.
InsertSessionNoUnique(d, name) ==
    [ok |-> TRUE,
     db |-> [d EXCEPT !.session = @ \cup {[id |-> d.seq.session + 1,
                                            name |-> NumericAffinity(name)]},
                      !.seq.session = @ + 1]]

\* Variant: INSERT OR REPLACE, which replaces the row of an existing name.
InsertSessionReplace(d, name) ==
    [ok |-> TRUE,
     db |-> [d EXCEPT !.session = {r \in @ : r.name /= NumericAffinity(name)}
                                     \cup {[id |-> d.seq.session + 1,
                                            name |-> NumericAffinity(name)]},
                      !.seq.session = @ + 1]]

\* INSERT INTO session (name) VALUES (?), with name UNIQUE
InsertSession(d, name) ==
    IF SessionExists(d, name)
    THEN [ok |-> FALSE, db |-> d]
    ELSE [ok |-> TRUE,
          db |-> [d EXCEPT !.session = @ \cup {[id |-> d.seq.session + 1,
                                                 name |-> NumericAffinity(name)]},
                           !.seq.session = @ + 1]]

\* Variant: foreign keys not enforced, so no cascade.
CascadeLogsOff(d, sessionIds) == d.request_log

\* FOREIGN KEY ... ON DELETE CASCADE, request_log -> session
CascadeLogs(d, sessionIds) == {r \in d.request_log : r.session_id \notin sessionIds}

\* Variant: the child tables without ON DELETE CASCADE.
CascadeChildrenOff(rows, logs) == rows

\* FOREIGN KEY ... ON DELETE CASCADE, request_header/request_query -> request_log
CascadeChildren(rows, logs) == {c \in rows : \E r \in logs : r.id = c.request_log_id}

\* Variant: the WHERE clause left out of the DELETE.
DeleteSessionRowsAll(d, name) ==
    LET gone == {r.id : r \in d.session}
        logs == CascadeLogs(d, gone)
    IN [affected |-> Cardinality(gone),
        db |-> [d EXCEPT !.session = {r \in @ : r.id \notin gone},
                         !.request_log = logs,
                         !.request_header = CascadeChildren(@, logs),
                         !.request_query = CascadeChildren(@, logs)]]

\* DELETE FROM session WHERE name = ?
DeleteSessionRows(d, name) ==
    LET gone == SelectSessionId(d, name)
        logs == CascadeLogs(d, gone)
    IN [affected |-> Cardinality(gone),
        db |-> [d EXCEPT !.session = {r \in @ : r.id \notin gone},
                         !.request_log = logs,
                         !.request_header = CascadeChildren(@, logs),
                         !.request_query = CascadeChildren(@, logs)]]

\* Variant: session_id without NOT NULL, so a NULL session id is stored.
InsertRequestLogNullable(d, name, log, call) ==
    LET sid == SelectSessionId(d, name)
        id == d.seq.request_log + 1
    IN [ok |-> TRUE, id |-> id,
        db |-> [d EXCEPT !.request_log = @ \cup
                           {[id |-> id,
                             session_id |-> IF sid = {} THEN 0 ELSE CHOOSE x \in sid : TRUE,
                             method |-> MethodToString(log.method),
                             path |-> log.path,
                             body |-> log.body,
                             requested_at |-> log.requested_at,
                             call |-> call,
                             sname |-> name]},
                         !.seq.request_log = id]]

\* INSERT INTO request_log (session_id, ...) VALUES ((SELECT id FROM session
\* WHERE name = ?), ...): a NULL session_id violates NOT NULL.
InsertRequestLog(d, name, log, call) ==
    LET sid == SelectSessionId(d, name)
        id == d.seq.request_log + 1
    IN IF sid = {}
       THEN [ok |-> FALSE, id |-> 0, db |-> d]
       ELSE [ok |-> TRUE, id |-> id,
             db |-> [d EXCEPT !.request_log = @ \cup
                                {[id |-> id,
                                  session_id |-> CHOOSE x \in sid : TRUE,
                                  method |-> MethodToString(log.method),
                                  path |-> log.path,
                                  body |-> log.body,
                                  requested_at |-> log.requested_at,
                                  call |-> call,
                                  sname |-> name]},
                              !.seq.request_log = id]]

\* One multi-row INSERT: a row per entry of the map, in iteration order.
ChildRows(last, logId, map) ==
    {[id |-> last + i, request_log_id |-> logId,
      name |-> map[i][1], value |-> map[i][2]] : i \in 1..Len(map)}

\* INSERT INTO request_header (request_log_id, name, value) VALUES ...
InsertHeaders(d, logId, headers) ==
    [d EXCEPT !.request_header = @ \cup ChildRows(d.seq.request_header, logId, headers),
              !.seq.request_header = @ + Len(headers)]

\* INSERT INTO request_query (request_log_id, name, value) VALUES ...
InsertQuery(d, logId, query) ==
    [d EXCEPT !.request_query = @ \cup ChildRows(d.seq.request_query, logId, query),
              !.seq.request_query = @ + Len(query)]

\* Variant: the rows read newest first (ORDER BY id DESC).
SelectLogsNewestFirst(d, sid) ==
    LET rows == SortedById({r \in d.request_log : r.session_id = sid})
    IN [i \in 1..Len(rows) |-> rows[Len(rows) + 1 - i]]

\* SELECT ... FROM request_log WHERE session_id = ?
SelectLogs(d, sid) == SortedById({r \in d.request_log : r.session_id = sid})

\* SELECT ... FROM <child> LEFT JOIN request_log ON request_log.id =
\* <child>.request_log_id WHERE request_log.session_id = ?
SelectChildren(rows, d, sid) ==
    SortedById({c \in rows : \E r \in d.request_log :
                    r.id = c.request_log_id /\ r.session_id = sid})

SelectHeaders(d, sid) == SelectChildren(d.request_header, d, sid)

SelectQueries(d, sid) == SelectChildren(d.request_query, d, sid)

(***************************************************************************)
(* LoggerError and the messages of the recorder                            *)
(***************************************************************************)
NoError == [kind |-> "none", msg |-> ""]
InvalidSession(msg) == [kind |-> "InvalidSession", msg |-> msg]
InternalError(msg) == [kind |-> "InternalError", msg |-> msg]

AlreadyExistsMsg(name) == "session \"" \o Str(name) \o "\" already exists"
NotFoundMsg(name) == "session \"" \o Str(name) \o "\" is not found"

\* err.to_string() of a failure of the driver that is no constraint violation
DriverErrorMsg == "error returned from database"

(***************************************************************************)
(* get_session_history: the reassembly of the fetched rows                 *)
(***************************************************************************)
\* the rows grouped under one request_log_id, collected into an IndexMap
\* Variant: the child rows are not grouped by request_log_id.
RowsOfAny(rows, logId) ==
    IndexMapCollect([i \in 1..Len(rows) |-> <<rows[i].name, rows[i].value>>])

RowsOf(rows, logId) ==
    LET mine == SelectSeq(rows, LAMBDA c : c.request_log_id = logId)
    IN IndexMapCollect([i \in 1..Len(mine) |-> <<mine[i].name, mine[i].value>>])

ToRequestLog(row, allHeaders, allQueries) ==
    [method |-> MethodTryFrom(row.method).method,
     headers |-> RowsOf(allHeaders, row.id),
     path |-> row.path,
     query |-> RowsOf(allQueries, row.id),
     body |-> row.body,
     requested_at |-> row.requested_at]

\* logs.into_iter().map(...).collect::<Result<Vec<_>, _>>()
Reassemble(logs, allHeaders, allQueries) ==
    LET bad == {i \in 1..Len(logs) : ~MethodTryFrom(logs[i].method).ok}
    IN IF bad /= {}
       THEN LET i == CHOOSE i \in bad : \A j \in bad : i <= j
            IN [err |-> InternalError(MethodTryFrom(logs[i].method).err), logs |-> <<>>]
       ELSE [err |-> NoError,
             logs |-> [i \in 1..Len(logs) |-> ToRequestLog(logs[i], allHeaders, allQueries)]]

\* get_session_history run against one state of the store
GetSessionHistory(d, name) ==
    LET sid == SelectSessionId(d, name)
    IN IF sid = {}
       THEN [err |-> InvalidSession(NotFoundMsg(name)), logs |-> <<>>]
       ELSE LET id == CHOOSE x \in sid : TRUE
            IN Reassemble(SelectLogs(d, id), SelectHeaders(d, id), SelectQueries(d, id))

(***************************************************************************)
(* JSON values (serde_json::Value).  A string is the sequence of its       *)
(* characters, an array the sequence of its elements and an object the     *)
(* sequence of its (key, value) entries, with distinct keys.               *)
(***************************************************************************)
JNull == [jt |-> "null", jv |-> <<>>]
JNum(n) == [jt |-> "num", jv |-> <<n>>]
JStr(cs) == [jt |-> "str", jv |-> cs]
JArr(elems) == [jt |-> "arr", jv |-> elems]
JObj(entries) == [jt |-> "obj", jv |-> entries]

\* Map::get
ObjGet(entries, key) ==
    LET at == {i \in 1..Len(entries) : entries[i][1] = key}
    IN IF at = {} THEN [some |-> FALSE, value |-> JNull]
       ELSE [some |-> TRUE, value |-> entries[CHOOSE i \in at : TRUE][2]]

\* IndexMap::get on a map kept as its (key, value) entries
MapGet(values, key) == ObjGet(values, key)

(***************************************************************************)
(* JsonTemplate (json_template.rs).  A PlaceholderPath is kept flat: the   *)
(* Field and Index steps from the root, then the leaf.  An index is the    *)
(* position in the array, counted from 1.                                  *)
(***************************************************************************)
FieldStep(key) == [k |-> "field", key |-> key, idx |-> 0]
IndexStep(i) == [k |-> "index", key |-> <<>>, idx |-> i]

ValuePlaceholder(name) == [steps |-> <<>>, leaf |-> [kind |-> "value", of |-> name]]
TextPlaceholder(text) == [steps |-> <<>>, leaf |-> [kind |-> "text", of |-> text]]

\* PlaceholderPath::Field(key, Box::new(path)) and ::Index(index, ...)
Under(step, paths) ==
    [i \in 1..Len(paths) |-> [paths[i] EXCEPT !.steps = <<step>> \o @]]

RECURSIVE Concat(_)
Concat(seqs) == IF seqs = <<>> THEN <<>> ELSE Head(seqs) \o Concat(Tail(seqs))

\* The characters of [A-Za-z_] and of [A-Za-z0-9_].
IdentStart == NameChars \ (Digits \cup {"-"})
IdentChars == NameChars \ {"-"}

\* Regex ^[A-Za-z_][A-Za-z0-9_]*$
IsIdent(name) ==
    /\ name /= <<>>
    /\ Head(name) \in IdentStart
    /\ \A i \in 2..Len(name) : name[i] \in IdentChars

EmptyPlaceholderMsg == [text |-> "placeholder name cannot be empty", name |-> <<>>]
InvalidPlaceholderMsg(name) == [text |-> "invalid placeholder name", name |-> name]
DuplicatedPlaceholderMsg(name) == [text |-> "duplicated placeholder name", name |-> name]
NoMsg == [text |-> "", name |-> <<>>]

\* The pattern tried before the test for an empty name.
ValidatePlaceholderNamePatternFirst(new_name, existing_names) ==
    IF ~IsIdent(new_name) THEN [ok |-> FALSE, msg |-> InvalidPlaceholderMsg(new_name)]
    ELSE IF new_name = <<>> THEN [ok |-> FALSE, msg |-> EmptyPlaceholderMsg]
    ELSE IF new_name \in Range(existing_names)
         THEN [ok |-> FALSE, msg |-> DuplicatedPlaceholderMsg(new_name)]
    ELSE [ok |-> TRUE, msg |-> NoMsg]

\* JsonTemplate::validate_placeholder_name
ValidatePlaceholderName(new_name, existing_names) ==
    IF new_name = <<>> THEN [ok |-> FALSE, msg |-> EmptyPlaceholderMsg]
    ELSE IF ~IsIdent(new_name) THEN [ok |-> FALSE, msg |-> InvalidPlaceholderMsg(new_name)]
    ELSE IF new_name \in Range(existing_names)
         THEN [ok |-> FALSE, msg |-> DuplicatedPlaceholderMsg(new_name)]
    ELSE [ok |-> TRUE, msg |-> NoMsg]

\* The loop of parse over value_placeholders, then the text placeholder.
RECURSIVE ValidateFrom(_, _)
ValidateFrom(names, validated_names) ==
    IF names = <<>> THEN [ok |-> TRUE, msg |-> NoMsg]
    ELSE LET r == ValidatePlaceholderName(Head(names), validated_names)
         IN IF ~r.ok THEN r
            ELSE ValidateFrom(Tail(names), Append(validated_names, Head(names)))

\* JsonTemplate::traverse; text_placeholder is "$" + the text name.
RECURSIVE Traverse(_, _, _)
Traverse(template, placeholders, text_placeholder) ==
    CASE template.jt = "obj" ->
            LET text == ObjGet(template.jv, text_placeholder)
            IN IF text.some /\ text.value.jt = "str"
               THEN <<TextPlaceholder(text.value.jv)>>
               ELSE Concat([i \in 1..Len(template.jv) |->
                        Under(FieldStep(template.jv[i][1]),
                              Traverse(template.jv[i][2], placeholders,
                                       text_placeholder))])
      [] template.jt = "arr" ->
            Concat([i \in 1..Len(template.jv) |->
                Under(IndexStep(i),
                      Traverse(template.jv[i], placeholders, text_placeholder))])
      [] template.jt = "str" ->
            IF /\ template.jv /= <<>>
               /\ Head(template.jv) = "$"
               /\ Tail(template.jv) \in Range(placeholders)
            THEN <<ValuePlaceholder(Tail(template.jv))>>
            ELSE <<>>
      [] OTHER -> <<>>

NoTemplate == [ok |-> FALSE, msg |-> NoMsg, template |-> JNull, placeholder_paths |-> <<>>]

\* JsonTemplate::parse
Parse(template, value_placeholders, text_placeholder) ==
    LET v == ValidateFrom(Append(value_placeholders, text_placeholder), <<>>)
    IN IF ~v.ok THEN [NoTemplate EXCEPT !.msg = v.msg]
       ELSE [ok |-> TRUE, msg |-> NoMsg, template |-> template,
             placeholder_paths |->
                 Traverse(template, value_placeholders, <<"$">> \o text_placeholder)]

(***************************************************************************)
(* The text engine (minijinja).  A character of a source is an ordinary    *)
(* character or one whole tag: "{{ name }}" for a variable, "{%" for a     *)
(* block that is never closed.  A variable that is not bound renders as    *)
(* nothing; a bound one renders as the text of its value.                  *)
(***************************************************************************)
ContentsName == <<"_", "c", "o", "n", "t", "e", "n", "t", "s">>
TextName == <<"_", "t", "e", "x", "t">>
IndexName == <<"_", "i", "n", "d", "e", "x">>
ValueName == <<"_", "v", "a", "l", "u", "e">>

VarTags ==
    [tag \in {"{{ _contents }}", "{{ _index }}", "{{ _value }}"} |->
        CASE tag = "{{ _contents }}" -> ContentsName
          [] tag = "{{ _index }}" -> IndexName
          [] tag = "{{ _value }}" -> ValueName]

UnclosedTags == {"{%"}

\* The value of a call that panicked.
Panic == [jt |-> "panic", jv |-> <<>>]

RECURSIVE RenderFrom(_, _)
RenderFrom(text, values) ==
    IF text = <<>> THEN <<>>
    ELSE LET c == Head(text)
             shown == IF c \in DOMAIN VarTags
                      THEN LET bound == MapGet(values, VarTags[c])
                           IN IF bound.some THEN <<ToString(bound.value)>> ELSE <<>>
                      ELSE <<c>>
         IN shown \o RenderFrom(Tail(text), values)

\* env.add_template(...).unwrap(); tmpl.render(values).unwrap()
Render(text, values) ==
    IF Range(text) \cap UnclosedTags /= {} THEN Panic
    ELSE JStr(RenderFrom(text, values))

\* JsonTemplate::expand_recursive: the value that `expanded` holds after the
\* call, or Panic when an unwrap fails.
RECURSIVE ExpandRecursive(_, _, _, _)
ExpandRecursive(expanded, values, steps, leaf) ==
    IF steps = <<>>
    THEN IF leaf.kind = "value"
         THEN LET bound == MapGet(values, leaf.of)
              IN IF bound.some THEN bound.value ELSE Panic
         ELSE Render(leaf.of, values)
    ELSE LET step == Head(steps)
         IN IF step.k = "index"
            THEN IF expanded.jt /= "arr" \/ step.idx > Len(expanded.jv) THEN Panic
                 ELSE LET sub == ExpandRecursive(expanded.jv[step.idx], values,
                                                 Tail(steps), leaf)
                      IN IF sub = Panic THEN Panic
                         ELSE JArr([expanded.jv EXCEPT ![step.idx] = sub])
            ELSE LET at == IF expanded.jt = "obj"
                           THEN {i \in 1..Len(expanded.jv) :
                                     expanded.jv[i][1] = step.key}
                           ELSE {}
                 IN IF at = {} THEN Panic
                    ELSE LET i == CHOOSE i \in at : TRUE
                             sub == ExpandRecursive(expanded.jv[i][2], values,
                                                    Tail(steps), leaf)
                         IN IF sub = Panic THEN Panic
                            ELSE JObj([expanded.jv EXCEPT ![i] = <<step.key, sub>>])

\* The leaf of a path applied where the path starts.
ExpandPathAtRoot(expanded, values, path) ==
    IF expanded = Panic THEN Panic
    ELSE ExpandRecursive(expanded, values, <<>>, path.leaf)

\* One turn of the for_each of expand.
ExpandPath(expanded, values, path) ==
    IF expanded = Panic THEN Panic
    ELSE ExpandRecursive(expanded, values, path.steps, path.leaf)

RECURSIVE ExpandFrom(_, _, _)
ExpandFrom(expanded, values, paths) ==
    IF paths = <<>> THEN expanded
    ELSE ExpandFrom(ExpandPath(expanded, values, Head(paths)), values, Tail(paths))

\* JsonTemplate::expand
Expand(tpl, values) == ExpandFrom(tpl.template, values, tpl.placeholder_paths)

(***************************************************************************)
(* Response handlers and the configured routes                             *)
(***************************************************************************)
\* Header names that http's response builder refuses.
InvalidHeaderNames == {"bad name"}

\* HeaderName: http keeps header names in lowercase.
ToLower(n) ==
    CASE n = "Token" -> "token"
      [] n = "TOKEN" -> "token"
      [] n = "Accept" -> "accept"
      [] n = "Content-Type" -> "content-type"
      [] OTHER -> n

LowerNames(pairs) == [i \in 1..Len(pairs) |-> <<ToLower(pairs[i][1]), pairs[i][2]>>]

\* ResponseHandler::respond, Static
RespondStatic(handler) ==
    IF \E i \in 1..Len(handler.headers) : handler.headers[i][1] \in InvalidHeaderNames
    THEN [ok |-> FALSE, status |-> 500, headers |-> <<>>,
          body |-> "invalid HTTP header name"]
    ELSE [ok |-> TRUE, status |-> handler.status,
          headers |-> LowerNames(handler.headers), body |-> handler.body]

(***************************************************************************)
(* usize.  The word is modelled UsizeBits wide; an operation that leaves   *)
(* its range panics in a build with overflow checks and wraps in one       *)
(* without, and `lab.checks` says which build runs.                        *)
(***************************************************************************)
UsizeMax == 2^UsizeBits - 1

OverflowChecks == lab.checks

\* The result of a usize operation whose mathematical value is n.
Wrapped(n) == IF n \in 0..UsizeMax THEN [panic |-> FALSE, n |-> n]
              ELSE IF OverflowChecks THEN [panic |-> TRUE, n |-> 0]
              ELSE [panic |-> FALSE, n |-> n % (UsizeMax + 1)]

DigitValue(c) == CHOOSE n \in 0..9 : ToString(n) = c

RECURSIVE DecimalFrom(_, _)
DecimalFrom(acc, cs) ==
    IF cs = <<>> \/ acc > UsizeMax THEN acc
    ELSE DecimalFrom(acc * 10 + DigitValue(Head(cs)), Tail(cs))

\* str::parse::<usize>().ok(): an optional "+", then digits, within range.
ParseUsize(cs) ==
    LET ds == IF cs /= <<>> /\ Head(cs) = "+" THEN Tail(cs) ELSE cs
    IN IF ds = <<>> \/ ~(Range(ds) \subseteq Digits) THEN [some |-> FALSE, n |-> 0]
       ELSE IF DecimalFrom(0, ds) > UsizeMax THEN [some |-> FALSE, n |-> 0]
       ELSE [some |-> TRUE, n |-> DecimalFrom(0, ds)]

\* query.get(param).and_then(|v| v.parse::<usize>().ok()).unwrap_or(default)
QueryUsize(query, param, default) ==
    LET v == MapGet(query, param)
    IN IF v.some /\ ParseUsize(v.value).some THEN ParseUsize(v.value).n ELSE default

\* items.iter().skip(n).take(per_page)
SkipTake(items, n, per_page) ==
    SubSeq(items, n + 1, Min(n + per_page, Len(items)))

\* The reply of a handler that panicked: the connection task dies and no
\* response is written.
PanicReply == [ok |-> FALSE, status |-> 0, headers |-> <<>>, body |-> Panic]

\* The key respond binds the window under.
ContentsKey == <<"$">> \o ContentsName

\* indexmap! { "$_contents".to_string() => contents }
RespondValues(contents) == << <<ContentsKey, contents>> >>

\* ResponseHandler::respond, Paging
RespondPaging(handler, query) ==
    LET page == QueryUsize(query, handler.page_param, 1)
        per_page == QueryUsize(query, handler.per_page_param, handler.default_per_page)
        before == Wrapped(page - 1)
        skip == Wrapped(before.n * per_page)
    IN IF before.panic \/ skip.panic THEN PanicReply
       ELSE LET contents == JArr(SkipTake(handler.items, skip.n, per_page))
                body == Expand(handler.template, RespondValues(contents))
                headers == << <<"content-type", "application/json">> >> \o handler.headers
            IN IF body = Panic THEN PanicReply
               ELSE IF \E i \in 1..Len(headers) : headers[i][1] \in InvalidHeaderNames
               THEN [ok |-> FALSE, status |-> 500, headers |-> <<>>,
                     body |-> JStr(<<"invalid HTTP header name">>)]
               ELSE [ok |-> TRUE, status |-> handler.status,
                     headers |-> LowerNames(headers), body |-> body]

\* ResponseHandler::respond
Respond(handler, query) ==
    CASE handler.type = "static" -> RespondStatic(handler)
      [] handler.type = "paging" -> RespondPaging(handler, query)

RouteHello ==
    [method |-> "Get", segs |-> <<"hello">>,
     response |-> [type |-> "static", status |-> 200,
                   headers |-> << <<"Content-Type", "text/plain">> >>,
                   body |-> "Hello, world!"]]

RouteGreet ==
    [method |-> "Post", segs |-> <<"greet">>,
     response |-> [type |-> "static", status |-> 201,
                   headers |-> << <<"answer", "42">> >>,
                   body |-> "hi"]]

RouteBroken ==
    [method |-> "Put", segs |-> <<"broken">>,
     response |-> [type |-> "static", status |-> 200,
                   headers |-> << <<"bad name", "1">> >>,
                   body |-> "never sent"]]

\* The endpoints the configuration declares.
Routes == {RouteHello, RouteGreet, RouteBroken}

(***************************************************************************)
(* Mock requests.  A request is its session path segment, its method, the  *)
(* path segments after /mock/<session>, its header lines, its query pairs  *)
(* and its body as the chunks the connection delivers.                     *)
(***************************************************************************)
\* A session segment whose percent-decoding is not UTF-8.
BadSeg == <<"%FF">>

\* A header value that HeaderValue::to_str refuses.
OpaqueHeaderValues == {"\\xff"}

Chunk(bytes) == [ok |-> TRUE, bytes |-> bytes]
BrokenChunk == [ok |-> FALSE, bytes |-> <<>>]

ShapePlain ==
    [method |-> "Get", segs |-> <<"hello">>, headers |-> <<>>, query |-> <<>>,
     chunks |-> <<>>]

ShapeFull ==
    [method |-> "Post", segs |-> <<"greet">>,
     headers |-> << <<"Token", "abc">>, <<"Accept", "any">> >>,
     query |-> << <<"foo", "x">>, <<"bar", "y">> >>,
     chunks |-> << Chunk(<<104, 105>>) >>]

ShapeDup ==
    [method |-> "Post", segs |-> <<"greet">>,
     headers |-> << <<"Token", "abc">>, <<"b", "1">>, <<"TOKEN", "xyz">> >>,
     query |-> << <<"foo", "x">>, <<"bar", "y">>, <<"foo", "z">> >>,
     chunks |-> << Chunk(<<104, 255>>), Chunk(<<105>>) >>]

ShapeLong ==
    [method |-> "Post", segs |-> <<"greet">>, headers |-> <<>>, query |-> <<>>,
     chunks |-> << Chunk([i \in 1..(ReadBufCap + 1) |-> 97]) >>]

ShapeOpaque ==
    [method |-> "Get", segs |-> <<"hello">>,
     headers |-> << <<"Token", "\\xff">> >>, query |-> <<>>, chunks |-> <<>>]

ShapeBodyError ==
    [method |-> "Post", segs |-> <<"greet">>, headers |-> <<>>, query |-> <<>>,
     chunks |-> << BrokenChunk >>]

ShapeWrongMethod ==
    [method |-> "Delete", segs |-> <<"hello">>, headers |-> <<>>, query |-> <<>>,
     chunks |-> <<>>]

ShapeBroken ==
    [method |-> "Put", segs |-> <<"broken">>, headers |-> <<>>,
     query |-> << <<"foo", "x">> >>, chunks |-> <<>>]

MockRequest(session, shape) ==
    [session |-> session, method |-> shape.method, segs |-> shape.segs,
     headers |-> shape.headers, query |-> shape.query, chunks |-> shape.chunks]

\* The request URI path: /mock/<session>/<path>
UriSegs(req) == <<"mock", Str(req.session)>> \o req.segs

\* nest("/mock/:serverify_session", ...) hands the handler the URI without
\* the prefix it matched.
StripPrefix(segs) == SubSeq(segs, 3, Len(segs))

RECURSIVE JoinPath(_)
JoinPath(segs) == IF segs = <<>> THEN "" ELSE "/" \o Head(segs) \o JoinPath(Tail(segs))

\* The route of the request's path, and whether its method filter matches.
RouteOf(req) == CHOOSE r \in Routes : r.segs = StripPrefix(UriSegs(req))

\* A route whose handler takes every method.
MethodAllowedAny(req) == TRUE

MethodAllowed(req) == RouteOf(req).method = req.method

\* Path::from_request_parts
PathExtract(req) ==
    IF "%FF" \in Range(req.session)
    THEN [ok |-> FALSE, msg |-> "Invalid UTF-8 in path"]
    ELSE [ok |-> TRUE, msg |-> ""]

\* Query::<IndexMap<String, String>>::try_from_uri
QueryExtract(req) == IndexMapCollect(req.query)

\* Header values taken lossily, so that none is refused.
HeadersExtractLossy(req) ==
    [ok |-> TRUE, msg |-> "", map |-> IndexMapCollect(LowerNames(req.headers))]

\* parts.headers.iter() ... collect::<Result<IndexMap<_, _>, _>>()
HeadersExtract(req) ==
    IF \E i \in 1..Len(req.headers) : req.headers[i][2] \in OpaqueHeaderValues
    THEN [ok |-> FALSE, msg |-> "failed to convert header to a str", map |-> <<>>]
    ELSE [ok |-> TRUE, msg |-> "", map |-> IndexMapCollect(LowerNames(req.headers))]

\* stream.read_buf(&mut buf): one read, of the first chunk, of at most the
\* capacity reserved for the empty buffer.
ReadBuf(chunks) ==
    IF chunks = <<>> THEN [ok |-> TRUE, msg |-> "", bytes |-> <<>>]
    ELSE IF ~Head(chunks).ok THEN [ok |-> FALSE, msg |-> "body error", bytes |-> <<>>]
    ELSE [ok |-> TRUE, msg |-> "",
          bytes |-> SubSeq(Head(chunks).bytes, 1, Min(Len(Head(chunks).bytes), ReadBufCap))]

\* String::from_utf8_lossy on bytes that are ASCII or never valid in UTF-8:
\* each invalid byte becomes U+FFFD.
Utf8Lossy(bytes) == [i \in 1..Len(bytes) |-> IF bytes[i] < 128 THEN bytes[i] ELSE 65533]

\* Variant: every session name is recorded.
IsRecordedAlways(session) == TRUE

\* `serverify_session != "default"`
IsRecorded(session) == session /= Default

\* The RequestLog the handler builds, or the extraction failure.
BuildLog(req, now) ==
    LET h == HeadersExtract(req)
        b == ReadBuf(req.chunks)
        none == [method |-> req.method, headers |-> <<>>, path |-> "",
                 query |-> <<>>, body |-> <<>>, requested_at |-> 0]
    IN IF ~h.ok THEN [ok |-> FALSE, msg |-> h.msg, log |-> none]
       ELSE IF ~b.ok THEN [ok |-> FALSE, msg |-> b.msg, log |-> none]
       ELSE [ok |-> TRUE, msg |-> "",
             log |-> [method |-> req.method,
                      headers |-> h.map,
                      path |-> JoinPath(StripPrefix(UriSegs(req))),
                      query |-> QueryExtract(req),
                      body |-> Utf8Lossy(b.bytes),
                      requested_at |-> now]]

\* Variant: every failure of log_request answered 500.
LoggerErrorStatusFlat(err) == 500

\* The status a failure of log_request is answered with.
LoggerErrorStatus(err) == IF err.kind = "InternalError" THEN 500 ELSE 404

\* unwrap_or_else(|(status, message)| ...): the plain-text failure reply
ErrorReply(status, msg) == [status |-> status, headers |-> <<>>, body |-> msg]

\* self.response.respond(&query), with its failure turned into a reply
RespondReply(req) ==
    LET r == Respond(RouteOf(req).response, QueryExtract(req))
    IN [status |-> r.status, headers |-> r.headers, body |-> r.body]

(***************************************************************************)
(* Control-plane replies (response.rs)                                     *)
(***************************************************************************)
\* success_response
SuccessResponse(status, body) == [status |-> status, headers |-> <<>>, body |-> body]

\* error_response
ErrorResponse(status, msg) ==
    [status |-> status, headers |-> <<>>,
     body |-> [serverify_error |-> [message |-> msg]]]

InvalidNameMsg == "session name should contains only alphanumeric, hyphen or underscore"

(***************************************************************************)
(* The recorder's single-statement operations.  `fault` is a failure of    *)
(* the driver that is no constraint violation.                             *)
(***************************************************************************)
\* RequestLogger::create_session
CreateSession(d, name, fault) ==
    IF fault THEN [err |-> InvalidSession(DriverErrorMsg), db |-> d]
    ELSE LET r == InsertSession(d, name)
         IN IF r.ok THEN [err |-> NoError, db |-> r.db]
            ELSE [err |-> InvalidSession(AlreadyExistsMsg(name)), db |-> d]

\* RequestLogger::delete_session
DeleteSession(d, name, fault) ==
    IF fault THEN [err |-> InternalError(DriverErrorMsg), db |-> d]
    ELSE LET r == DeleteSessionRows(d, name)
         IN IF r.affected = 0
            THEN [err |-> InvalidSession(NotFoundMsg(name)), db |-> d]
            ELSE [err |-> NoError, db |-> r.db]

(***************************************************************************)
(* The write transaction of log_request.  SQLite's shared cache admits one *)
(* write transaction at a time and locks the tables it has written, so     *)
(* other connections read committed rows only.                             *)
(***************************************************************************)
NoTx == [owner |-> "none", work |-> EmptyDb, locked |-> {}]

\* Variant: the transaction dropped without tx.commit().
CommitMissing(d, t) == d

\* COMMIT
Commit(d, t) == t.work

\* Variant: statements run outside a transaction, so a dropped call keeps
\* the rows it wrote.
RollbackKeepsRows(d, t) == t.work

\* The transaction is dropped without commit: ROLLBACK
Rollback(d, t) == d

\* Whether a statement that reads `tables` can run now.
CanRead(t, tables) == t.locked \cap tables = {}

\* Whether a statement that writes can start a write transaction now.
CanWrite(t) == t.owner = "none"

(***************************************************************************)
(* The inputs of a behaviour.  A world fixes the session names and the     *)
(* request shapes that the clients of one behaviour use, how many requests *)
(* more (or fewer) than MaxCalls they send, and whether the behaviour      *)
(* includes the shutdown signal.                                           *)
(***************************************************************************)
WorldSessions ==
    [create |-> {S1, S2}, names |-> {S1, S2}, mock |-> {S1, S2},
     shapes |-> {ShapeFull, ShapePlain}, extra |-> 0, shutdown |-> TRUE]

WorldDefault ==
    [create |-> {Default, S1, Spaced}, names |-> {Default, S1},
     mock |-> {Default, S1}, shapes |-> {ShapePlain, ShapeBroken},
     extra |-> 0, shutdown |-> FALSE]

WorldExtract ==
    [create |-> {S1}, names |-> {S1}, mock |-> {S1, BadSeg},
     shapes |-> {ShapeDup, ShapeLong, ShapeOpaque, ShapeBodyError, ShapeWrongMethod},
     extra |-> 0, shutdown |-> FALSE]

WorldNumeric ==
    [create |-> {N7, N07}, names |-> {N7, N07}, mock |-> {N7, N07},
     shapes |-> {ShapePlain}, extra |-> 0, shutdown |-> FALSE]

WorldInvalid ==
    [create |-> {Empty, Spaced, Mixed}, names |-> {Spaced, Mixed},
     mock |-> {Mixed}, shapes |-> {ShapePlain}, extra |-> 0, shutdown |-> FALSE]

\* One session and one request shape, with one request more.
WorldOrder ==
    [create |-> {S1}, names |-> {S1}, mock |-> {S1}, shapes |-> {ShapeFull},
     extra |-> 1, shutdown |-> FALSE]

\* One session and one request shape, with one request fewer and the
\* shutdown signal.
WorldShutdown ==
    [create |-> {S1}, names |-> {S1}, mock |-> {S1}, shapes |-> {ShapeFull},
     extra |-> -1, shutdown |-> TRUE]

Worlds ==
    {WorldSessions, WorldDefault, WorldExtract, WorldNumeric, WorldInvalid,
     WorldOrder, WorldShutdown}

AllNames == {Default, S1, S2, Spaced, BadSeg, N7, N07, Empty, Mixed}

(***************************************************************************)
(* The serving task: axum::serve(...).with_graceful_shutdown(...).  After  *)
(* the signal it accepts nothing, lets the connections finish the request  *)
(* they are serving, and ends when the last of them is closed.  `inflight` *)
(* are the requests in flight at the signal; `answered` and `dropped` tell *)
(* how each of them ended, `logged` the calls committed before the signal. *)
(***************************************************************************)
\* `caller` is the position of the shutdown() call, `result` the result of
\* the serving task and `returned` what shutdown() returned.
Serving ==
    [phase |-> "serving", inflight |-> {}, logged |-> {}, answered |-> {},
     dropped |-> {}, caller |-> "none", result |-> "none", returned |-> "none"]

\* What the spawned task returns: axum::serve's result, its error as text.
TaskResults == {"Ok", "Err"}

\* The end of the handler task t, by its response or by its client.
Ended(t, how) ==
    IF server.phase = "draining" /\ t.call \in server.inflight
    THEN [server EXCEPT ![how] = @ \cup {t.call}]
    ELSE server

(***************************************************************************)
(* Handler tasks                                                           *)
(***************************************************************************)
NoReq ==
    [session |-> <<>>, method |-> "", segs |-> <<>>, headers |-> <<>>,
     query |-> <<>>, chunks |-> <<>>]

NoLog ==
    [method |-> "", headers |-> <<>>, path |-> "", query |-> <<>>,
     body |-> <<>>, requested_at |-> 0]

NoRes == [status |-> 0, headers |-> <<>>, body |-> ""]

IdleTask ==
    [op |-> "idle", pc |-> "idle", call |-> 0, req |-> NoReq, log |-> NoLog,
     logId |-> 0, sid |-> 0, logs |-> <<>>, hdrs |-> <<>>, err |-> NoError,
     invoked |-> FALSE, res |-> NoRes]

NewTask(op, session) ==
    [IdleTask EXCEPT !.op = op, !.call = calls + 1, !.req.session = session]

Done(t, err, res) == [t EXCEPT !.pc = "done", !.err = err, !.res = res]

\* `lab` holds the configuration-time objects (a JsonTemplate, a paging
\* handler) when one of them is exercised on its own; the running server of
\* Routes has none.
NoLab == [kind |-> "none"]

Init ==
    /\ db = EmptyDb
    /\ tx = NoTx
    /\ task = [h \in Handlers |-> IdleTask]
    /\ calls = 0
    /\ accepted = [n \in AllNames |-> <<>>]
    /\ completed = [ok |-> {}, before |-> [c \in 1..(MaxCalls + 1) |-> {}]]
    /\ snaps = [h \in Handlers |-> {}]
    /\ server = Serving
    /\ world \in Worlds
    /\ lab = NoLab

\* The numbers the requests of a behaviour are counted with.
CallIds == 1..(MaxCalls + 1)

\* The histories a get_session_history in progress could have read: that of
\* its session in every state of the store since the call began.
Observe(d) ==
    [g \in Handlers |->
        IF task[g].pc \in {"fetch_logs", "fetch_headers", "fetch_queries"}
        THEN snaps[g] \cup {GetSessionHistory(d, task[g].req.session)}
        ELSE snaps[g]]

\* A listener that goes on accepting after the signal.
CanReceiveAfterSignal(h) ==
    /\ task[h].op = "idle"
    /\ calls < MaxCalls + world.extra

\* axum::serve accepts connections until the shutdown signal.
CanReceive(h) ==
    /\ server.phase = "serving"
    /\ task[h].op = "idle"
    /\ calls < MaxCalls + world.extra

(***************************************************************************)
(* POST /session                                                           *)
(***************************************************************************)
\* Variant: InvalidSession answered as the other two endpoints answer it.
CreateReplyNotFound(name, err) ==
    CASE err.kind = "none" -> SuccessResponse(201, [session |-> Str(name)])
      [] err.kind = "InvalidSession" -> ErrorResponse(404, err.msg)
      [] err.kind = "InternalError" -> ErrorResponse(500, err.msg)

\* The reply of session_endpoint::create_session to the recorder's outcome
CreateReply(name, err) ==
    CASE err.kind = "none" -> SuccessResponse(201, [session |-> Str(name)])
      [] err.kind = "InvalidSession" -> ErrorResponse(409, err.msg)
      [] err.kind = "InternalError" -> ErrorResponse(500, err.msg)

\* session_endpoint::create_session
PostSession(h) ==
    /\ CanReceive(h)
    /\ \E name \in world.create, fault \in BOOLEAN :
         LET t == NewTask("create", name)
             r == CreateSession(db, name, fault)
         IN IF ~SessionNameIsMatch(name)
            THEN /\ ~fault
                 /\ task' = [task EXCEPT ![h] =
                        Done(t, NoError, ErrorResponse(400, InvalidNameMsg))]
                 /\ UNCHANGED <<db, accepted, snaps>>
            ELSE /\ CanWrite(tx)
                 /\ db' = r.db
                 /\ snaps' = Observe(r.db)
                 /\ accepted' = IF r.err = NoError
                                THEN [accepted EXCEPT ![name] = <<>>]
                                ELSE accepted
                 /\ task' = [task EXCEPT ![h] = Done(t, r.err, CreateReply(name, r.err))]
    /\ calls' = calls + 1
    /\ UNCHANGED <<tx, completed, server, world, lab>>

(***************************************************************************)
(* DELETE /session/{name}                                                  *)
(***************************************************************************)
\* The reply of session_endpoint::delete_session to the recorder's outcome
DeleteReply(name, err) ==
    CASE err.kind = "none" -> SuccessResponse(200, [session |-> Str(name)])
      [] err.kind = "InvalidSession" -> ErrorResponse(404, err.msg)
      [] err.kind = "InternalError" -> ErrorResponse(500, err.msg)

\* session_endpoint::delete_session
DeleteSessionEndpoint(h) ==
    /\ CanReceive(h)
    /\ CanWrite(tx)
    /\ \E name \in world.names, fault \in BOOLEAN :
         LET t == NewTask("delete", name)
             r == DeleteSession(db, name, fault)
         IN /\ db' = r.db
            /\ snaps' = Observe(r.db)
            /\ accepted' = IF r.err = NoError
                           THEN [accepted EXCEPT ![name] = <<>>]
                           ELSE accepted
            /\ task' = [task EXCEPT ![h] = Done(t, r.err, DeleteReply(name, r.err))]
    /\ calls' = calls + 1
    /\ UNCHANGED <<tx, completed, server, world, lab>>

(***************************************************************************)
(* GET /session/{name}: get_session_history is four statements on the      *)
(* pool, each in its own implicit transaction.                             *)
(***************************************************************************)
\* The reply of session_endpoint::get_session
GetReply(r) ==
    CASE r.err.kind = "none" -> SuccessResponse(200, [histories |-> r.logs])
      [] r.err.kind = "InvalidSession" -> ErrorResponse(404, r.err.msg)
      [] r.err.kind = "InternalError" -> ErrorResponse(500, r.err.msg)

\* The request arrives and the session id is looked up; `fault` is a failure
\* of the driver in the lookup.
GetSession(h) ==
    /\ CanReceive(h)
    /\ \E name \in world.names, fault \in BOOLEAN :
         LET t == NewTask("get", name)
             sid == SelectSessionId(db, name)
             miss == [err |-> InvalidSession(NotFoundMsg(name)), logs |-> <<>>]
             fail == [err |-> InternalError(DriverErrorMsg), logs |-> <<>>]
         IN /\ task' = [task EXCEPT ![h] =
                   IF fault THEN Done(t, fail.err, GetReply(fail))
                   ELSE IF sid = {} THEN Done(t, miss.err, GetReply(miss))
                   ELSE [t EXCEPT !.pc = "fetch_logs", !.sid = CHOOSE x \in sid : TRUE]]
            /\ snaps' = [snaps EXCEPT ![h] = {GetSessionHistory(db, name)}]
    /\ calls' = calls + 1
    /\ completed' = [completed EXCEPT !.before[calls + 1] = completed.ok]
    /\ UNCHANGED <<db, tx, accepted, server, world, lab>>

GetFetchLogs(h) ==
    /\ task[h].pc = "fetch_logs"
    /\ CanRead(tx, {"request_log"})
    /\ task' = [task EXCEPT ![h].pc = "fetch_headers",
                            ![h].logs = SelectLogs(db, task[h].sid)]
    /\ UNCHANGED <<db, tx, calls, accepted, completed, snaps, server, world, lab>>

GetFetchHeaders(h) ==
    /\ task[h].pc = "fetch_headers"
    /\ CanRead(tx, {"request_header", "request_log"})
    /\ task' = [task EXCEPT ![h].pc = "fetch_queries",
                            ![h].hdrs = SelectHeaders(db, task[h].sid)]
    /\ UNCHANGED <<db, tx, calls, accepted, completed, snaps, server, world, lab>>

\* The last statement, and the reassembly of the rows fetched.
GetFetchQueries(h) ==
    /\ task[h].pc = "fetch_queries"
    /\ CanRead(tx, {"request_query", "request_log"})
    /\ LET r == Reassemble(task[h].logs, task[h].hdrs, SelectQueries(db, task[h].sid))
       IN task' = [task EXCEPT ![h] = Done(@, r.err, GetReply(r))]
    /\ UNCHANGED <<db, tx, calls, accepted, completed, snaps, server, world, lab>>

\* One of the three fetches fails in the driver.
GetFail(h) ==
    /\ task[h].pc \in {"fetch_logs", "fetch_headers", "fetch_queries"}
    /\ LET r == [err |-> InternalError(DriverErrorMsg), logs |-> <<>>]
       IN task' = [task EXCEPT ![h] = Done(@, r.err, GetReply(r))]
    /\ UNCHANGED <<db, tx, calls, accepted, completed, snaps, server, world, lab>>

(***************************************************************************)
(* /mock/{session}/<path>: the handler of MockEndpoint::route_to           *)
(***************************************************************************)
MockRequests == {MockRequest(n, sh) : n \in world.mock, sh \in world.shapes}

\* After the request_log insert: the next statement log_request awaits.
AfterLogInsert(log) ==
    IF log.headers /= <<>> THEN "insert_header"
    ELSE IF log.query /= <<>> THEN "insert_query"
    ELSE "commit"

AfterHeaderInsert(log) == IF log.query /= <<>> THEN "insert_query" ELSE "commit"

\* The request is routed and its parts are extracted; a request that is not
\* recorded is answered at once.
MockReceive(h) ==
    /\ CanReceive(h)
    /\ \E req \in MockRequests :
         LET t == [NewTask("mock", req.session) EXCEPT !.req = req]
             p == PathExtract(req)
             b == BuildLog(req, calls + 1)
         IN task' = [task EXCEPT ![h] =
                IF ~MethodAllowed(req)
                THEN Done(t, NoError, ErrorReply(405, ""))
                ELSE IF ~p.ok
                THEN Done(t, NoError, ErrorReply(500, p.msg))
                ELSE IF ~IsRecorded(req.session)
                THEN Done([t EXCEPT !.invoked = TRUE], NoError, RespondReply(req))
                ELSE IF ~b.ok
                THEN Done(t, NoError, ErrorReply(500, b.msg))
                ELSE [t EXCEPT !.pc = "insert_log", !.log = b.log]]
    /\ calls' = calls + 1
    /\ completed' = [completed EXCEPT !.before[calls + 1] = completed.ok]
    /\ UNCHANGED <<db, tx, accepted, snaps, server, world, lab>>

\* pool.begin() and the INSERT INTO request_log
LogInsertRequestLog(h) ==
    /\ task[h].pc = "insert_log"
    /\ CanWrite(tx)
    /\ LET t == task[h]
           r == InsertRequestLog(db, t.req.session, t.log, t.call)
           e == InvalidSession(NotFoundMsg(t.req.session))
       IN IF r.ok
          THEN /\ tx' = [owner |-> h, work |-> r.db, locked |-> {"request_log"}]
               /\ task' = [task EXCEPT ![h].pc = AfterLogInsert(t.log),
                                       ![h].logId = r.id]
          ELSE /\ tx' = tx
               /\ task' = [task EXCEPT ![h] =
                      Done(t, e, ErrorReply(LoggerErrorStatus(e), e.msg))]
    /\ UNCHANGED <<db, calls, accepted, completed, snaps, server, world, lab>>

\* The INSERT INTO request_header
LogInsertHeaders(h) ==
    /\ task[h].pc = "insert_header"
    /\ tx.owner = h
    /\ tx' = [tx EXCEPT !.work = InsertHeaders(@, task[h].logId, task[h].log.headers),
                        !.locked = @ \cup {"request_header"}]
    /\ task' = [task EXCEPT ![h].pc = AfterHeaderInsert(task[h].log)]
    /\ UNCHANGED <<db, calls, accepted, completed, snaps, server, world, lab>>

\* The INSERT INTO request_query
LogInsertQuery(h) ==
    /\ task[h].pc = "insert_query"
    /\ tx.owner = h
    /\ tx' = [tx EXCEPT !.work = InsertQuery(@, task[h].logId, task[h].log.query),
                        !.locked = @ \cup {"request_query"}]
    /\ task' = [task EXCEPT ![h].pc = "commit"]
    /\ UNCHANGED <<db, calls, accepted, completed, snaps, server, world, lab>>

\* tx.commit() takes effect in the store
LogCommit(h) ==
    /\ task[h].pc = "commit"
    /\ tx.owner = h
    /\ db' = Commit(db, tx)
    /\ snaps' = Observe(Commit(db, tx))
    /\ tx' = NoTx
    /\ accepted' = [accepted EXCEPT ![task[h].req.session] = Append(@, task[h].log)]
    /\ completed' = [completed EXCEPT !.ok = @ \cup {task[h].call}]
    /\ task' = [task EXCEPT ![h].pc = "committed"]
    /\ UNCHANGED <<calls, server, world, lab>>

\* log_request returns Ok and the response handler is invoked
MockRespond(h) ==
    /\ task[h].pc = "committed"
    /\ task' = [task EXCEPT ![h] =
           Done([@ EXCEPT !.invoked = TRUE], NoError, RespondReply(@.req))]
    /\ UNCHANGED <<db, tx, calls, accepted, completed, snaps, server, world, lab>>

InLogRequest(t) == t.pc \in {"insert_log", "insert_header", "insert_query", "commit"}

\* A statement of log_request, or its commit, fails in the driver.
LogFail(h) ==
    /\ InLogRequest(task[h])
    /\ LET e == InternalError(DriverErrorMsg)
       IN task' = [task EXCEPT ![h] =
              Done(@, e, ErrorReply(LoggerErrorStatus(e), e.msg))]
    /\ IF tx.owner = h
       THEN db' = Rollback(db, tx) /\ tx' = NoTx
       ELSE UNCHANGED <<db, tx>>
    /\ UNCHANGED <<calls, accepted, completed, snaps, server, world, lab>>

(***************************************************************************)
(* The end of a handler                                                    *)
(***************************************************************************)
\* The handler's future is dropped at a suspension point (the client went
\* away): an open transaction is dropped with it.
Cancel(h) ==
    /\ task[h].pc \notin {"idle", "done"}
    /\ task' = [task EXCEPT ![h] = IdleTask]
    /\ snaps' = [snaps EXCEPT ![h] = {}]
    /\ server' = Ended(task[h], "dropped")
    /\ IF tx.owner = h
       THEN db' = Rollback(db, tx) /\ tx' = NoTx
       ELSE UNCHANGED <<db, tx>>
    /\ UNCHANGED <<calls, accepted, completed, world, lab>>

\* The reply is written and the task ends.
Finish(h) ==
    /\ task[h].pc = "done"
    /\ task' = [task EXCEPT ![h] = IdleTask]
    /\ snaps' = [snaps EXCEPT ![h] = {}]
    /\ server' = Ended(task[h], "answered")
    /\ UNCHANGED <<db, tx, calls, accepted, completed, world, lab>>

(***************************************************************************)
(* Shutdown                                                                *)
(***************************************************************************)
\* ServerHandle::shutdown(self) sends on close_tx, close_rx resolves, and the
\* caller goes on to await the serving task.  The handle is consumed.
Shutdown ==
    /\ world.shutdown
    /\ server.caller = "none"
    /\ server.phase = "serving"
    /\ server' = [server EXCEPT !.phase = "draining",
                                !.caller = "waiting",
                                !.logged = completed.ok,
                                !.inflight = {task[h].call : h \in
                                                 {g \in Handlers : task[g].op /= "idle"}}]
    /\ UNCHANGED <<db, tx, task, calls, accepted, completed, snaps, world, lab>>

\* The last connection is closed and the serving task returns.
ServeEnd ==
    /\ server.phase = "draining"
    /\ \A h \in Handlers : task[h].op = "idle"
    /\ \E r \in TaskResults :
           server' = [server EXCEPT !.phase = "ended", !.result = r]
    /\ UNCHANGED <<db, tx, task, calls, accepted, completed, snaps, world, lab>>

\* A shutdown() that returns without awaiting the serving task.
ShutdownReturnEarly ==
    /\ server.caller = "waiting"
    /\ server' = [server EXCEPT !.caller = "returned", !.returned = server.result]
    /\ UNCHANGED <<db, tx, task, calls, accepted, completed, snaps, world, lab>>

\* self.handle.await: shutdown() returns the result of the serving task.
ShutdownReturn ==
    /\ server.caller = "waiting"
    /\ server.phase = "ended"
    /\ server' = [server EXCEPT !.caller = "returned", !.returned = server.result]
    /\ UNCHANGED <<db, tx, task, calls, accepted, completed, snaps, world, lab>>

Handle(h) ==
    \/ PostSession(h)
    \/ DeleteSessionEndpoint(h)
    \/ GetSession(h)
    \/ GetFetchLogs(h)
    \/ GetFetchHeaders(h)
    \/ GetFetchQueries(h)
    \/ GetFail(h)
    \/ MockReceive(h)
    \/ LogInsertRequestLog(h)
    \/ LogInsertHeaders(h)
    \/ LogInsertQuery(h)
    \/ LogCommit(h)
    \/ MockRespond(h)
    \/ LogFail(h)
    \/ Cancel(h)
    \/ Finish(h)

Next ==
    \/ \E h \in Handlers : Handle(h)
    \/ Shutdown
    \/ ServeEnd
    \/ ShutdownReturn

Spec == Init /\ [][Next]_vars

(***************************************************************************)
(* The server under the tokio scheduler: a handler task that can take a    *)
(* step of its own eventually takes it, the serving task ends once its     *)
(* connections are closed, and an awaiting shutdown() is woken.  Nothing   *)
(* is assumed about the clients: neither that they send requests nor that  *)
(* they hang up.                                                           *)
(***************************************************************************)
Run(h) ==
    \/ GetFetchLogs(h)
    \/ GetFetchHeaders(h)
    \/ GetFetchQueries(h)
    \/ GetFail(h)
    \/ LogInsertRequestLog(h)
    \/ LogInsertHeaders(h)
    \/ LogInsertQuery(h)
    \/ LogCommit(h)
    \/ MockRespond(h)
    \/ LogFail(h)
    \/ Finish(h)

FairInit == Init /\ world = WorldShutdown

Fairness ==
    /\ \A h \in Handlers : WF_vars(Run(h))
    /\ WF_vars(ServeEnd)
    /\ WF_vars(ShutdownReturn)

FairSpec == FairInit /\ [][Next]_vars /\ Fairness

(***************************************************************************)
(* A paging handler on its own: the configuration of one paging endpoint,  *)
(* the handler parse_config builds from it, and the requests' queries.     *)
(***************************************************************************)
serverVars == <<db, tx, task, calls, accepted, completed, snaps, server, world>>

\* The server before any request, in which `lab` is exercised.
ServerIdle ==
    /\ db = EmptyDb
    /\ tx = NoTx
    /\ task = [h \in Handlers |-> IdleTask]
    /\ calls = 0
    /\ accepted = [n \in AllNames |-> <<>>]
    /\ completed = [ok |-> {}, before |-> [c \in 1..(MaxCalls + 1) |-> {}]]
    /\ snaps = [h \in Handlers |-> {}]
    /\ server = Serving
    /\ world = WorldSessions

None == [some |-> FALSE, n |-> 0]
Some(n) == [some |-> TRUE, n |-> n]

TotalKey == <<"t", "o", "t", "a", "l">>
MembersKey == <<"m", "e", "m", "b", "e", "r", "s">>
NameKey == <<"n", "a", "m", "e">>

\* {"name": "member<i>"}
Member(i) == JObj(<< <<NameKey, JStr(<<"m", "e", "m", "b", "e", "r", ToString(i)>>)>> >>)

Items == [i \in 1..MaxItems |-> Member(i - 1)]

\* {"total": 10, "members": "$_contents"}
TplMembers == JObj(<< <<TotalKey, JNum(10)>>, <<MembersKey, JStr(ContentsKey)>> >>)
\* {"total": 10}
TplTotal == JObj(<< <<TotalKey, JNum(10)>> >>)
\* [ "$_contents", "$_contents" ]
TplTwice == JArr(<<JStr(ContentsKey), JStr(ContentsKey)>>)

PagingTemplates == {TplMembers, TplTotal, TplTwice}

PagingHeaders ==
    {<<>>, << <<"answer", "42">> >>,
     << <<"answer", "42">>, <<"Content-Type", "text/plain">> >>}

PagingConfigs ==
    [status : {200, 1000}, headers : PagingHeaders, page_param : {"page"},
     per_page_param : {"per_page"}, default_per_page : {2},
     page_origin : {None, Some(0), Some(1)}, template : PagingTemplates,
     items : {Items}]

\* The values a client writes for page and per_page; Absent is no parameter.
Absent == <<"absent">>
\* The decimal digits of n, as usize::to_string writes them.
RECURSIVE Decimal(_)
Decimal(n) == IF n < 10 THEN <<ToString(n)>> ELSE Decimal(n \div 10) \o <<ToString(n % 10)>>

PageTexts == {Absent, <<"0">>, <<"1">>, <<"2">>, <<"3">>, <<"+", "2">>,
              <<"-", "1">>, <<"a">>, <<>>, <<"9", "9">>, Decimal(UsizeMax)}
PerPageTexts == {Absent, <<"0">>, <<"1">>, <<"3">>, <<"x">>, <<"4", "0">>}

\* The query map of ?page=<p>&per_page=<n>
PagingQuery(p, n) ==
    (IF p = Absent THEN <<>> ELSE << <<"page", p>> >>)
        \o (IF n = Absent THEN <<>> ELSE << <<"per_page", n>> >>)

PagingQueries == {PagingQuery(p, n) : p \in PageTexts, n \in PerPageTexts}

NoHandler ==
    [type |-> "none", status |-> 0, headers |-> <<>>, page_param |-> "",
     per_page_param |-> "", default_per_page |-> 0, page_origin |-> 0,
     template |-> NoTemplate, items |-> <<>>]

\* A StatusCode that takes the status classes 1xx to 5xx only.
StatusTryFromClasses(value) == value \in 100..599

\* StatusCode::try_from(u16)
StatusTryFrom(value) == value \in 100..999

\* ResponseHandler::new_paging
NewPaging(status, headers, page_param, per_page_param, default_per_page, page_origin, template, items) ==
    LET t == Parse(template, <<ContentsName>>, TextName)
    IN IF ~t.ok THEN [ok |-> FALSE, msg |-> t.msg, handler |-> NoHandler]
       ELSE [ok |-> TRUE, msg |-> NoMsg,
             handler |-> [type |-> "paging", status |-> status, headers |-> headers,
                          page_param |-> page_param,
                          per_page_param |-> per_page_param,
                          default_per_page |-> default_per_page,
                          page_origin |-> IF page_origin.some THEN page_origin.n ELSE 1,
                          template |-> t, items |-> items]]

\* parse_config, ResponseConfig::Paging
PagingFromConfig(cfg) ==
    IF ~StatusTryFrom(cfg.status)
    THEN [ok |-> FALSE, msg |-> [text |-> "invalid status code", name |-> <<>>],
          handler |-> NoHandler]
    ELSE NewPaging(cfg.status, cfg.headers, cfg.page_param, cfg.per_page_param,
                   cfg.default_per_page, cfg.page_origin, cfg.template, cfg.items)

NoReply == [ok |-> FALSE, status |-> 0, headers |-> <<>>, body |-> JNull]

PagingLabs ==
    {[kind |-> "paging", checks |-> c, config |-> cfg, pc |-> "config",
      handler |-> NoHandler, query |-> <<>>, reply |-> NoReply] :
        c \in BOOLEAN, cfg \in PagingConfigs}

PagingInit == ServerIdle /\ lab \in PagingLabs

\* parse_config builds the endpoint's handler, or fails.
PagingBuild ==
    /\ lab.pc = "config"
    /\ LET r == PagingFromConfig(lab.config)
       IN lab' = [lab EXCEPT !.pc = IF r.ok THEN "ready" ELSE "failed",
                             !.handler = r.handler]
    /\ UNCHANGED serverVars

\* One request to the endpoint: respond(&query).
PagingRespond ==
    /\ lab.pc \in {"ready", "replied"}
    /\ \E q \in PagingQueries :
           lab' = [lab EXCEPT !.pc = "replied", !.query = q,
                              !.reply = Respond(lab.handler, q)]
    /\ UNCHANGED serverVars

PagingNext == PagingBuild \/ PagingRespond

PagingSpec == PagingInit /\ [][PagingNext]_vars

(***************************************************************************)
(* A JsonTemplate on its own: parse on the arguments of one call, then     *)
(* expand calls on the template it returned.  expand works on `expanded`,  *)
(* the clone of the template, one placeholder path per step.               *)
(***************************************************************************)
AKey == <<"a">>
BKey == <<"b">>
CKey == <<"c">>
TextKey == <<"$">> \o TextName

Dollar(name) == JStr(<<"$">> \o name)

\* "$_value"
TplValue == Dollar(ValueName)
\* {"a": 1, "b": "$_value"}
TplField == JObj(<< <<AKey, JNum(1)>>, <<BKey, Dollar(ValueName)>> >>)
\* [{"a": "$_index", "b": 41}, {"a": 1, "b": "$_value"}]
TplRows ==
    JArr(<< JObj(<< <<AKey, Dollar(IndexName)>>, <<BKey, JNum(41)>> >>),
            JObj(<< <<AKey, JNum(1)>>, <<BKey, Dollar(ValueName)>> >>) >>)
\* {"c": {"$_text": "i={{ _index }},v={{ _value }}"}}
TplText ==
    JObj(<< <<CKey, JObj(<< <<TextKey,
        JStr(<<"i", "=", "{{ _index }}", ",", "v", "=", "{{ _value }}">>)>> >>)>> >>)
\* {"a": "$other", "b": "$", "c": "$_value"}
TplUndeclared ==
    JObj(<< <<AKey, JStr(<<"$", "o", "t", "h", "e", "r">>)>>, <<BKey, JStr(<<"$">>)>>,
            <<CKey, Dollar(ValueName)>> >>)
\* {"c": {"$_text": "x", "b": "$_value"}}
TplTextAndMore ==
    JObj(<< <<CKey, JObj(<< <<TextKey, JStr(<<"x">>)>>,
                            <<BKey, Dollar(ValueName)>> >>)>> >>)
\* {"c": {"$_text": 1, "b": "$_index"}}
TplTextNotString ==
    JObj(<< <<CKey, JObj(<< <<TextKey, JNum(1)>>, <<BKey, Dollar(IndexName)>> >>)>> >>)
\* {"a": "$_index", "c": {"$_text": "{%"}}
TplUnclosed ==
    JObj(<< <<AKey, Dollar(IndexName)>>,
            <<CKey, JObj(<< <<TextKey, JStr(<<"{%">>)>> >>)>> >>)
\* {"c": {"$_text": "$_value"}}
TplTextOfDollar == JObj(<< <<CKey, JObj(<< <<TextKey, Dollar(ValueName)>> >>)>> >>)

Templates ==
    {TplValue, TplField, TplRows, TplText, TplUndeclared, TplTextAndMore,
     TplTextNotString, TplUnclosed, TplTextOfDollar, JNum(7)}

\* The names the tests of parse pass: "", "_value", "$abc", "0x", "abc", "def"
PlaceholderNames ==
    {<<>>, ValueName, <<"$", "a", "b", "c">>, <<"0", "x">>, <<"a", "b", "c">>,
     <<"d", "e", "f">>}

TextNames == {TextName, <<>>, <<"0", "x">>, <<"a", "b", "c">>}

NameLists == UNION {[1..n -> PlaceholderNames] : n \in 0..MaxNames}

\* The arguments of parse: every template with the names of tests::expand,
\* and every list of names with one template.
ParseInputs ==
    {[template |-> t, names |-> <<IndexName, ValueName>>, text |-> TextName] :
        t \in Templates}
    \cup {[template |-> TplField, names |-> ns, text |-> tn] :
            ns \in NameLists, tn \in TextNames}

\* The values of an expand call.
ValueMaps ==
    {<< <<IndexName, JNum(0)>>, <<ValueName, JNum(42)>> >>,
     << <<ValueName, JArr(<<JNum(1), JNum(2)>>)>>, <<IndexName, JNum(1)>> >>,
     << <<IndexName, JNum(7)>>, <<ValueName, Dollar(IndexName)>> >>,
     << <<IndexName, JNum(0)>> >>}

TemplateLabs ==
    {[kind |-> "template", input |-> in, pc |-> "new", tpl |-> NoTemplate,
      values |-> <<>>, expanded |-> JNull, next |-> 0, calls |-> <<>>] :
        in \in ParseInputs}

TemplateInit == ServerIdle /\ lab \in TemplateLabs

\* JsonTemplate::parse(template, value_placeholders, text_placeholder)
TplParse ==
    /\ lab.pc = "new"
    /\ LET r == Parse(lab.input.template, lab.input.names, lab.input.text)
       IN lab' = [lab EXCEPT !.pc = IF r.ok THEN "ready" ELSE "rejected", !.tpl = r]
    /\ UNCHANGED serverVars

\* let mut expanded = self.template.clone();
ExpandEnter(l, values) ==
    [l EXCEPT !.pc = "expanding", !.values = values,
              !.expanded = l.tpl.template, !.next = 1]

\* A for_each turn of expand done on the stored template itself.
ExpandTurnInPlace(l) ==
    LET e == ExpandPath(l.expanded, l.values, l.tpl.placeholder_paths[l.next])
    IN [l EXCEPT !.expanded = e, !.next = @ + 1,
                 !.tpl.template = IF e = Panic THEN @ ELSE e]

\* Self::expand_recursive(&mut expanded, &values, placeholder_path)
ExpandTurn(l) ==
    [l EXCEPT !.expanded = ExpandPath(l.expanded, l.values,
                                      l.tpl.placeholder_paths[l.next]),
              !.next = @ + 1]

\* expand returns `expanded`, or unwinds from the panic.
ExpandLeave(l) ==
    [l EXCEPT !.pc = "ready", !.values = <<>>, !.expanded = JNull, !.next = 0,
              !.calls = Append(@, [values |-> l.values, result |-> l.expanded])]

TplExpandStart ==
    /\ lab.pc = "ready"
    /\ Len(lab.calls) < MaxExpands
    /\ \E v \in ValueMaps : lab' = ExpandEnter(lab, v)
    /\ UNCHANGED serverVars

TplExpandStep ==
    /\ lab.pc = "expanding"
    /\ lab.expanded /= Panic
    /\ lab.next <= Len(lab.tpl.placeholder_paths)
    /\ lab' = ExpandTurn(lab)
    /\ UNCHANGED serverVars

TplExpandReturn ==
    /\ lab.pc = "expanding"
    /\ lab.expanded = Panic \/ lab.next > Len(lab.tpl.placeholder_paths)
    /\ lab' = ExpandLeave(lab)
    /\ UNCHANGED serverVars

TemplateNext == TplParse \/ TplExpandStart \/ TplExpandStep \/ TplExpandReturn

TemplateSpec == TemplateInit /\ [][TemplateNext]_vars

(***************************************************************************)
(* parse_config on its own.  A document is its paths in the order written, *)
(* each with its methods in the order written; a method is the key as      *)
(* written and a response configuration.  serde reads the whole document   *)
(* first, then the endpoints are built one by one into the collected       *)
(* Result.                                                                 *)
(***************************************************************************)
U16Max == 2^16 - 1

\* The statuses of the documents: around the ends of the range that
\* StatusCode takes, and one that no u16 holds.
StatusValues == {99, 100, 200, 599, 600, 999, 1000, U16Max + 1}

StaticConfig(status) ==
    [type |-> "static", status |-> status, headers |-> <<>>, body |-> "Hello, world!"]

PagingConfig(status) ==
    [type |-> "paging", status |-> status, headers |-> <<>>, page_param |-> "p",
     per_page_param |-> "items", default_per_page |-> 2, page_origin |-> Some(0),
     template |-> TplMembers, items |-> Items]

\* The method keys of a document; "head" is no variant of Method.
MethodKeys == {"get", "post", "head"}

EndpointConfigs == {StaticConfig(200), StaticConfig(1000), PagingConfig(200), PagingConfig(99)}

\* A path's methods: at most MaxMethods keys, no key twice.
MethodMaps ==
    UNION {{m \in [1..n -> [method : MethodKeys, response : EndpointConfigs]] :
                \A i, j \in 1..n : i /= j => m[i].method /= m[j].method} :
           n \in 1..MaxMethods}

MoreMaps ==
    {<<[method |-> "get", response |-> StaticConfig(204)]>>,
     <<[method |-> "get", response |-> PagingConfig(1000)]>>,
     <<[method |-> "head", response |-> StaticConfig(200)]>>}

Documents ==
    {<<[path |-> "/hello", methods |-> <<[method |-> "get", response |-> r]>>]>> :
        r \in {StaticConfig(s) : s \in StatusValues}
              \cup {PagingConfig(s) : s \in StatusValues}}
    \cup {<<[path |-> "/hello", methods |-> m]>> : m \in MethodMaps}
    \cup {<<[path |-> "/hello", methods |-> m], [path |-> "/goodbye", methods |-> n]>> :
            m \in MethodMaps, n \in MoreMaps}

\* config.paths.into_iter().flat_map(|(path, methods)| methods.into_iter() ...)
RECURSIVE FlatMap(_)
FlatMap(paths) ==
    IF paths = <<>> THEN <<>>
    ELSE [i \in 1..Len(Head(paths).methods) |->
             [path |-> Head(paths).path, method |-> Head(paths).methods[i].method,
              response |-> Head(paths).methods[i].response]]
         \o FlatMap(Tail(paths))

NoConfigError == [text |-> "", at |-> 0]

\* What serde makes of one endpoint: the method key, then the u16 status.
DeserializeEndpoint(e) ==
    IF ~MethodTryFrom(e.method).ok THEN "unknown variant"
    ELSE IF e.response.status > U16Max THEN "invalid value, expected u16"
    ELSE ""

\* serde_yaml::from_str::<Config>(src): the document, or the error of the
\* first endpoint in the document that serde cannot read.
Deserialize(doc) ==
    LET flat == FlatMap(doc)
        bad == {i \in 1..Len(flat) : DeserializeEndpoint(flat[i]) /= ""}
    IN IF bad = {} THEN [ok |-> TRUE, err |-> NoConfigError, config |-> flat]
       ELSE LET i == CHOOSE i \in bad : \A j \in bad : i <= j
            IN [ok |-> FALSE, err |-> [text |-> DeserializeEndpoint(flat[i]), at |-> i],
                config |-> <<>>]

\* ResponseHandler::new_static
NewStatic(status, headers, body) ==
    [type |-> "static", status |-> status, headers |-> headers, body |-> body]

\* The closure of parse_config: one endpoint of the document to its
\* MockEndpoint, or the error of its StatusCode or of its handler.
BuildEndpoint(e) ==
    LET r == e.response
    IN IF r.type = "static"
       THEN IF ~StatusTryFrom(r.status)
            THEN [ok |-> FALSE, text |-> "invalid status code", endpoint |-> <<>>]
            ELSE [ok |-> TRUE, text |-> "",
                  endpoint |-> [method |-> MethodTryFrom(e.method).method, path |-> e.path,
                                response |-> NewStatic(r.status, r.headers, r.body)]]
       ELSE LET h == PagingFromConfig(r)
            IN IF ~h.ok THEN [ok |-> FALSE, text |-> h.msg.text, endpoint |-> <<>>]
               ELSE [ok |-> TRUE, text |-> "",
                     endpoint |-> [method |-> MethodTryFrom(e.method).method,
                                   path |-> e.path, response |-> h.handler]]

NoResult == [ok |-> FALSE, err |-> NoConfigError, endpoints |-> <<>>]

ConfigLabs ==
    {[kind |-> "config", doc |-> d, pc |-> "new", config |-> <<>>, next |-> 0,
      built |-> <<>>, result |-> NoResult] : d \in Documents}

ConfigInit == ServerIdle /\ lab \in ConfigLabs

\* serde_yaml::from_str::<Config>(src).map_err(|e| e.to_string())
ConfigDeserialize ==
    /\ lab.pc = "new"
    /\ LET d == Deserialize(lab.doc)
       IN lab' = IF d.ok
                 THEN [lab EXCEPT !.pc = "building", !.config = d.config, !.next = 1]
                 ELSE [lab EXCEPT !.pc = "done", !.result.err = d.err]
    /\ UNCHANGED serverVars

\* A collect that goes on after an Err and keeps what it built.
CollectTurnKeepGoing(l) ==
    LET b == BuildEndpoint(l.config[l.next])
    IN IF b.ok THEN [l EXCEPT !.built = Append(@, b.endpoint), !.next = @ + 1]
       ELSE [l EXCEPT !.next = @ + 1, !.result.err = [text |-> b.text, at |-> l.next]]

\* One turn of collect::<Result<Vec<_>, _>>(): the next endpoint is built
\* and pushed, or its Err ends the collection and is the result.
CollectTurn(l) ==
    LET b == BuildEndpoint(l.config[l.next])
    IN IF b.ok THEN [l EXCEPT !.built = Append(@, b.endpoint), !.next = @ + 1]
       ELSE [l EXCEPT !.pc = "done", !.built = <<>>,
                      !.result.err = [text |-> b.text, at |-> l.next]]

\* The iterator is exhausted: Ok(the endpoints built), unless an Err was met.
CollectEnd(l) ==
    IF l.result.err /= NoConfigError
    THEN [l EXCEPT !.pc = "done", !.result.endpoints = l.built]
    ELSE [l EXCEPT !.pc = "done", !.result = [ok |-> TRUE, err |-> NoConfigError,
                                              endpoints |-> l.built]]

ConfigBuild ==
    /\ lab.pc = "building"
    /\ lab.next <= Len(lab.config)
    /\ lab' = CollectTurn(lab)
    /\ UNCHANGED serverVars

ConfigReturn ==
    /\ lab.pc = "building"
    /\ lab.next > Len(lab.config)
    /\ lab' = CollectEnd(lab)
    /\ UNCHANGED serverVars

ConfigNext == ConfigDeserialize \/ ConfigBuild \/ ConfigReturn

ConfigSpec == ConfigInit /\ [][ConfigNext]_vars

(***************************************************************************)
(* The recorder on its own: one caller runs the public operations of       *)
(* RequestLogger one after another on a store that init has set up.        *)
(* `calls` counts the calls, `accepted` holds per name the logs accepted   *)
(* since the session was created, and `lab` the last call: its operation,  *)
(* its session, the store before it and what it returned.                  *)
(***************************************************************************)
RecorderNames == {S1, S2}

RecorderShapes == {ShapeFull, ShapePlain}

NoOutcome == [err |-> NoError, logs |-> <<>>]

\* sqlx::query(SCHEMA): every table is dropped and created again, empty,
\* and its AUTOINCREMENT sequence starts over.
SchemaInit(d) == EmptyDb

\* RequestLogger::log_request run alone: the transaction and its commit, or
\* the failure that drops it.
LogRequest(d, name, log, call, fault) ==
    LET r == InsertRequestLog(d, name, log, call)
    IN IF ~r.ok THEN [err |-> InvalidSession(NotFoundMsg(name)), db |-> d]
       ELSE IF fault THEN [err |-> InternalError(DriverErrorMsg), db |-> d]
       ELSE [err |-> NoError,
             db |-> InsertQuery(InsertHeaders(r.db, r.id, log.headers), r.id, log.query)]

RecorderLab(op, name, out) ==
    [kind |-> "recorder", op |-> op, name |-> name, prev |-> db, out |-> out,
     created |-> IF op = "init" THEN [n \in RecorderNames |-> 0]
                 ELSE IF op = "create_session" /\ out.err = NoError
                 THEN [lab.created EXCEPT ![name] = calls + 1]
                 ELSE lab.created]

RecorderInit ==
    /\ ServerIdle
    /\ lab = [kind |-> "recorder", op |-> "none", name |-> <<>>, prev |-> EmptyDb,
              out |-> NoOutcome, created |-> [n \in RecorderNames |-> 0]]

RecorderCall == calls < MaxOps /\ calls' = calls + 1

\* RequestLogger::init
RecInit ==
    /\ RecorderCall
    /\ db' = SchemaInit(db)
    /\ accepted' = [n \in AllNames |-> <<>>]
    /\ lab' = RecorderLab("init", <<>>, NoOutcome)
    /\ UNCHANGED <<tx, task, completed, snaps, server, world>>

\* RequestLogger::create_session
RecCreateSession ==
    /\ RecorderCall
    /\ \E name \in RecorderNames, fault \in BOOLEAN :
         LET r == CreateSession(db, name, fault)
         IN /\ db' = r.db
            /\ accepted' = IF r.err = NoError THEN [accepted EXCEPT ![name] = <<>>]
                           ELSE accepted
            /\ lab' = RecorderLab("create_session", name, [NoOutcome EXCEPT !.err = r.err])
    /\ UNCHANGED <<tx, task, completed, snaps, server, world>>

\* RequestLogger::log_request
RecLogRequest ==
    /\ RecorderCall
    /\ \E name \in RecorderNames, shape \in RecorderShapes, fault \in BOOLEAN :
         LET log == BuildLog(MockRequest(name, shape), calls + 1).log
             r == LogRequest(db, name, log, calls + 1, fault)
         IN /\ db' = r.db
            /\ accepted' = IF r.err = NoError THEN [accepted EXCEPT ![name] = Append(@, log)]
                           ELSE accepted
            /\ lab' = RecorderLab("log_request", name, [NoOutcome EXCEPT !.err = r.err])
    /\ UNCHANGED <<tx, task, completed, snaps, server, world>>

\* RequestLogger::get_session_history
RecGetSessionHistory ==
    /\ RecorderCall
    /\ \E name \in RecorderNames :
         lab' = RecorderLab("get_session_history", name, GetSessionHistory(db, name))
    /\ UNCHANGED <<db, accepted, tx, task, completed, snaps, server, world>>

\* RequestLogger::delete_session
RecDeleteSession ==
    /\ RecorderCall
    /\ \E name \in RecorderNames, fault \in BOOLEAN :
         LET r == DeleteSession(db, name, fault)
         IN /\ db' = r.db
            /\ accepted' = IF r.err = NoError THEN [accepted EXCEPT ![name] = <<>>]
                           ELSE accepted
            /\ lab' = RecorderLab("delete_session", name, [NoOutcome EXCEPT !.err = r.err])
    /\ UNCHANGED <<tx, task, completed, snaps, server, world>>

RecorderNext ==
    \/ RecInit
    \/ RecCreateSession
    \/ RecLogRequest
    \/ RecGetSessionHistory
    \/ RecDeleteSession

RecorderSpec == RecorderInit /\ [][RecorderNext]_vars

TypeOK ==
    /\ calls \in 0..(IF lab.kind = "recorder" THEN MaxOps ELSE MaxCalls + 1)
    /\ tx.owner \in Handlers \cup {"none"}
    /\ server.phase \in {"serving", "draining", "ended"}
    /\ \A h \in Handlers : task[h].op \in {"idle", "create", "get", "delete", "mock"}

(***************************************************************************)
(* Properties                                                              *)
(***************************************************************************)
AllHeaderRows == SortedById(db.request_header)
AllQueryRows == SortedById(db.request_query)

\* The log a request_log row of the store reads back as.
StoredLog(r) == ToRequestLog(r, AllHeaderRows, AllQueryRows)

RowsOfCall(d, call) == {r \in d.request_log : r.call = call}

IsMock(t) == t.op = "mock"

\* C1: for every session other than "default" that is in the store,
\* get_session_history returns exactly the logs of the log_request calls
\* made under that session's name that succeeded since the session was
\* created, in the order they were committed, each with the method, path,
\* body, requested_at and the ordered headers and query that were passed in.
C1_HistoryRoundTrip ==
    \A n \in AllNames \ {Default} :
        SessionExists(db, n) =>
            GetSessionHistory(db, n) = [err |-> NoError, logs |-> accepted[n]]

\* C2: log_request is all-or-nothing.  While a call is before its commit no
\* row of it is in the committed store; every request_log row that is in the
\* committed store reads back as one complete accepted log and every child
\* row belongs to such a row; a call that fails or is cancelled before its
\* commit leaves the committed store as it was; a cancellation after the
\* commit leaves the store, with the log, as it was.
C2_State ==
    /\ \A h \in Handlers :
          IsMock(task[h]) /\ InLogRequest(task[h]) => RowsOfCall(db, task[h].call) = {}
    /\ \A r \in db.request_log :
          \E i \in 1..Len(accepted[r.sname]) : accepted[r.sname][i] = StoredLog(r)
    /\ \A c \in db.request_header \cup db.request_query :
          \E r \in db.request_log : r.id = c.request_log_id

C2_Step ==
    \A h \in Handlers :
        /\ InLogRequest(task[h]) /\ task'[h].pc \in {"done", "idle"} => db' = db
        /\ task[h].pc = "committed" /\ task'[h].pc = "idle" => db' = db

C2_LogRequestAtomic == [](C2_State) /\ [][C2_Step]_vars

C2_Witness ==
    \E h \in Handlers :
        /\ IsMock(task[h]) /\ task[h].pc = "done"
        /\ task[h].err.kind = "InternalError"
        /\ task[h].logId > 0
        /\ task[h].log.headers /= <<>>
        /\ SessionExists(db, task[h].req.session)
        /\ RowsOfCall(db, task[h].call) = {}
        /\ db.request_header = {}

\* C3: the store holds at most one session row per name, and a
\* create_session on a name that is in the store returns InvalidSession
\* (with the message `session "<name>" already exists` when the statement
\* ran), is answered 409, and leaves the store, the session's logs
\* included, unchanged.
C3_State ==
    \A r, q \in db.session : (r.name = q.name \/ r.id = q.id) => r = q

C3_Step ==
    \A h \in Handlers :
        (task[h].op = "idle" /\ task'[h].op = "create"
            /\ SessionExists(db, task'[h].req.session)) =>
        /\ db' = db
        /\ task'[h].err.kind = "InvalidSession"
        /\ task'[h].err.msg \in {AlreadyExistsMsg(task'[h].req.session), DriverErrorMsg}
        /\ task'[h].res.status = 409
        /\ GetSessionHistory(db', task'[h].req.session) =
               GetSessionHistory(db, task'[h].req.session)

C3_CreateSessionUnique == [](C3_State) /\ [][C3_Step]_vars

C3_Witness ==
    \E h \in Handlers :
        /\ task[h].op = "create" /\ task[h].pc = "done"
        /\ task[h].err = InvalidSession(AlreadyExistsMsg(task[h].req.session))
        /\ task[h].res = ErrorResponse(409, "session \"s1\" already exists")
        /\ Len(GetSessionHistory(db, task[h].req.session).logs) = 1

\* C4: when delete_session(s) returns Ok no request_log row logged under s
\* and no child row of such a row is left, and get_session_history(s) is
\* InvalidSession in that store; no row ever outlives its session; and a
\* get_session_history that starts while s is not in the store returns
\* InvalidSession and is answered 404, unless the driver fails.
C4_State ==
    /\ \A r \in db.request_log :
          \E s \in db.session :
              s.id = r.session_id /\ s.name = NumericAffinity(r.sname)
    /\ \A c \in db.request_header \cup db.request_query :
          \E r \in db.request_log : r.id = c.request_log_id

C4_Step ==
    \A h \in Handlers :
        /\ (task[h].op = "idle" /\ task'[h].op = "delete" /\ task'[h].err = NoError) =>
              LET s == task'[h].req.session
                  old == {r.id : r \in {q \in db.request_log :
                                            \/ q.sname = s
                                            \/ q.session_id \in SelectSessionId(db, s)}}
              IN /\ \A r \in db'.request_log : r.sname /= s /\ r.id \notin old
                 /\ \A c \in db'.request_header \cup db'.request_query :
                       c.request_log_id \notin old
                 /\ GetSessionHistory(db', s).err = InvalidSession(NotFoundMsg(s))
        /\ (task[h].op = "idle" /\ task'[h].op = "get"
               /\ ~SessionExists(db, task'[h].req.session)) =>
              /\ task'[h].pc = "done"
              /\ \/ /\ task'[h].err = InvalidSession(NotFoundMsg(task'[h].req.session))
                    /\ task'[h].res.status = 404
                 \/ task'[h].err = InternalError(DriverErrorMsg)

IsDefaultMock(t) == IsMock(t) /\ t.req.session = Default

C5_State ==
    \A r \in db.request_log \cup tx.work.request_log : r.sname /= Default

C5_Step ==
    \A h \in Handlers :
        (task'[h] /= task[h] /\ (IsDefaultMock(task[h]) \/ IsDefaultMock(task'[h]))) =>
            UNCHANGED storeVars

C5_DefaultNeverRecorded == [](C5_State) /\ [][C5_Step]_vars

C5_Witness ==
    \E h \in Handlers :
        /\ IsDefaultMock(task[h]) /\ task[h].pc = "done"
        /\ task[h].invoked
        /\ task[h].res.status = 500
        /\ SessionExists(db, Default)
        /\ db.request_log = {}

\* C6: the store never holds a session row named "default" and no
\* get_session_history("default") returns Ok.
C6_DefaultNeverStored ==
    /\ ~SessionExists(db, Default)
    /\ \A h \in Handlers :
          ~(task[h].op = "get" /\ task[h].req.session = Default
              /\ task[h].pc = "done" /\ task[h].err = NoError)

\* The response the route's handler produces for the request's query.
HandlerResponse(req) ==
    LET route == CHOOSE r \in Routes : r.segs = req.segs /\ r.method = req.method
        out == Respond(route.response, IndexMapCollect(req.query))
    IN [status |-> out.status, headers |-> out.headers, body |-> out.body]

\* A finished mock request that was routed to its handler, whose parts were
\* extracted and whose recording met no failure of the driver.
Served(t) ==
    /\ IsMock(t) /\ t.pc = "done"
    /\ MethodAllowed(t.req)
    /\ PathExtract(t.req).ok
    /\ IsRecorded(t.req.session) => BuildLog(t.req, t.call).ok
    /\ t.err.kind /= "InternalError"

C7_State ==
    \A h \in Handlers :
        Served(task[h]) =>
            IF task[h].req.session = Default \/ task[h].err = NoError
            THEN /\ task[h].res = HandlerResponse(task[h].req)
                 /\ task[h].invoked
                 /\ task[h].err = NoError
            ELSE /\ task[h].res = [status |-> 404, headers |-> <<>>,
                                   body |-> NotFoundMsg(task[h].req.session)]
                 /\ ~task[h].invoked

C7_Step ==
    \A h \in Handlers :
        task[h].pc = "insert_log" =>
            /\ task'[h].err.kind = "InvalidSession" => ~SessionExists(db, task[h].req.session)
            /\ task'[h].pc \in {"insert_header", "insert_query", "commit"} =>
                  SessionExists(db, task[h].req.session)

C8_State ==
    \A h \in Handlers :
        (IsMock(task[h]) /\ task[h].pc = "done" /\ task[h].err /= NoError) =>
            /\ task[h].req.session /= Default
            /\ task[h].err.kind \in {"InvalidSession", "InternalError"}
            /\ task[h].res.status = (IF task[h].err.kind = "InvalidSession" THEN 404 ELSE 500)
            /\ task[h].res.body = task[h].err.msg
            /\ ~task[h].invoked
            /\ RowsOfCall(db, task[h].call) = {}

C8_Step ==
    \A h \in Handlers :
        (IsMock(task[h]) /\ task[h].pc /= "done" /\ task'[h].pc = "done"
            /\ task'[h].err /= NoError) =>
            /\ db' = db
            /\ task'[h].err.kind = "InvalidSession" =>
                  /\ task'[h].err.msg = NotFoundMsg(task[h].req.session)
                  /\ ~SessionExists(db, task[h].req.session)
                  /\ ~SessionExists(db', task[h].req.session)

C8_LogFailureReply == [](C8_State) /\ [][C8_Step]_vars

C8_Witness ==
    \E h, g \in Handlers :
        /\ IsMock(task[h]) /\ task[h].pc = "done"
        /\ task[h].err.kind = "InvalidSession" /\ task[h].res.status = 404
        /\ IsMock(task[g]) /\ task[g].pc = "done"
        /\ task[g].err.kind = "InternalError" /\ task[g].res.status = 500
        /\ task[g].logId > 0

\* All the bytes of the request body.
RECURSIVE FullBody(_)
FullBody(chunks) ==
    IF chunks = <<>> THEN <<>> ELSE Head(chunks).bytes \o FullBody(Tail(chunks))

\* C9: a mock request to a session other than "default" that is answered by
\* the response handler has, while its session is in the store, exactly one
\* log in that session's history: its method is the request method, its
\* path the request path without /mock/<session>, its query the request's
\* query map, its headers the request's headers under lowercase names and
\* its body the text of the whole request body.
C9_MockRequestIsLogged ==
    \A h \in Handlers :
        (IsMock(task[h]) /\ task[h].pc = "done" /\ task[h].invoked
            /\ task[h].req.session /= Default
            /\ \E i \in 1..Len(accepted[task[h].req.session]) :
                  accepted[task[h].req.session][i].requested_at = task[h].call) =>
        LET req == task[h].req
            mine == SelectSeq(GetSessionHistory(db, req.session).logs,
                              LAMBDA l : l.requested_at = task[h].call)
        IN /\ Len(mine) = 1
           /\ mine[1].method = req.method
           /\ mine[1].path = JoinPath(req.segs)
           /\ mine[1].query = IndexMapCollect(req.query)
           /\ mine[1].headers = IndexMapCollect(LowerNames(req.headers))
           /\ mine[1].body = Utf8Lossy(FullBody(req.chunks))

\* C10: every request_log row belongs to exactly one session, the one it
\* was logged under: it is in the history of the session of that name and
\* in the history of no session of another name.
C10_LogInOneSession ==
    \A r \in db.request_log :
        /\ Cardinality({s \in db.session : s.id = r.session_id}) = 1
        /\ \A n \in AllNames :
              SessionExists(db, n) =>
                  LET rows == SelectLogs(db, CHOOSE x \in SelectSessionId(db, n) : TRUE)
                      logs == GetSessionHistory(db, n).logs
                  IN /\ (r \in Range(rows)) <=> (n = r.sname)
                     /\ (\E i \in 1..Len(logs) : logs[i].requested_at = r.call)
                            <=> (n = r.sname)

\* C11: the request_log insert of a log_request whose session name is not in
\* the store (the lookup by name finds no row) ends the call with
\* InvalidSession(`session "<s>" is not found`), unless the driver fails,
\* and leaves the store and the open transaction as they were, whatever
\* headers and query the log carries; no request_log row, committed or
\* pending, is without a session id.
C11_State ==
    /\ \A r \in db.request_log \cup tx.work.request_log : r.session_id >= 1
    /\ \A h \in Handlers :
          (IsMock(task[h]) /\ task[h].pc = "done"
              /\ task[h].err.kind = "InvalidSession") =>
              /\ task[h].err = InvalidSession(NotFoundMsg(task[h].req.session))
              /\ task[h].logId = 0
              /\ RowsOfCall(db, task[h].call) = {}
              /\ RowsOfCall(tx.work, task[h].call) = {}

C11_Step ==
    \A h \in Handlers :
        (task[h].pc = "insert_log" /\ task'[h].pc /= "insert_log"
            /\ ~SessionExists(db, task[h].req.session)) =>
            /\ db' = db /\ tx' = tx
            /\ task'[h].pc \in {"done", "idle"}
            /\ task'[h].pc = "done" =>
                  task'[h].err \in {InvalidSession(NotFoundMsg(task[h].req.session)),
                                    InternalError(DriverErrorMsg)}

Named(d, n) == \E r \in d.session : r.name = NumericAffinity(n)

\* C12: get_session_history(s) returns InvalidSession(`session "<s>" is not
\* found`) exactly when no session named s is in the store at its lookup
\* (a failure of the driver aside), and Ok with an empty list for a session
\* that is in the store and has no logs.
C12_State ==
    /\ \A n \in AllNames :
          /\ GetSessionHistory(db, n).err = InvalidSession(NotFoundMsg(n)) <=> ~Named(db, n)
          /\ GetSessionHistory(db, n).err = NoError <=> Named(db, n)
          /\ (Named(db, n) /\ \A r \in db.request_log, s \in db.session :
                                 s.name = NumericAffinity(n) => r.session_id /= s.id) =>
                GetSessionHistory(db, n) = [err |-> NoError, logs |-> <<>>]
    /\ \A h \in Handlers :
          (task[h].op = "get" /\ task[h].pc = "done") =>
              /\ task[h].err.kind = "InvalidSession" =>
                    /\ task[h].err = InvalidSession(NotFoundMsg(task[h].req.session))
                    /\ task[h].res = ErrorResponse(404, NotFoundMsg(task[h].req.session))
              /\ (task[h].err = NoError /\ db.seq.request_log = 0) =>
                    task[h].res = SuccessResponse(200, [histories |-> <<>>])

C12_Step ==
    \A h \in Handlers :
        (task[h].op = "idle" /\ task'[h].op = "get") =>
            /\ task'[h].err.kind = "InvalidSession" <=>
                  (~Named(db, task'[h].req.session) /\ task'[h].err.kind /= "InternalError")
            /\ task'[h].pc = "fetch_logs" =>
                  /\ Named(db, task'[h].req.session)
                  /\ \E s \in db.session :
                        /\ s.id = task'[h].sid
                        /\ s.name = NumericAffinity(task'[h].req.session)

C13_State ==
    \A h \in Handlers :
        (task[h].op = "delete" /\ task[h].pc = "done"
            /\ task[h].err.kind = "InvalidSession") =>
            /\ task[h].err = InvalidSession(NotFoundMsg(task[h].req.session))
            /\ task[h].res = ErrorResponse(404, NotFoundMsg(task[h].req.session))

C13_Step ==
    \A h \in Handlers :
        (task[h].op = "idle" /\ task'[h].op = "delete") =>
            LET s == task'[h].req.session
            IN /\ ~Named(db, s) =>
                     /\ db' = db /\ tx' = tx
                     /\ task'[h].err \in {InvalidSession(NotFoundMsg(s)),
                                          InternalError(DriverErrorMsg)}
                     /\ \A n \in AllNames :
                           GetSessionHistory(db', n) = GetSessionHistory(db, n)
               /\ task'[h].err.kind = "InvalidSession" => ~Named(db, s)
               /\ task'[h].err = NoError => Named(db, s) /\ ~Named(db', s)

C14_ControlPlaneStatus ==
    \A h \in Handlers :
        LET t == task[h]
            name == Str(t.req.session)
            failed == [serverify_error |-> [message |-> t.err.msg]]
        IN (t.pc = "done" /\ t.op \in {"create", "get", "delete"}
               /\ ~(t.op = "create" /\ t.res.status = 400)) =>
           /\ t.res.headers = <<>>
           /\ t.err.kind = "none" =>
                 /\ t.res.status = (IF t.op = "create" THEN 201 ELSE 200)
                 /\ IF t.op = "get"
                    THEN /\ DOMAIN t.res.body = {"histories"}
                         /\ \A i \in 1..Len(t.res.body.histories) :
                               \E r \in Range(t.logs) :
                                  /\ r.requested_at = t.res.body.histories[i].requested_at
                                  /\ r.path = t.res.body.histories[i].path
                         /\ Len(t.res.body.histories) = Len(t.logs)
                    ELSE t.res.body = [session |-> name]
           /\ t.err.kind = "InvalidSession" =>
                 /\ t.res.status = (IF t.op = "create" THEN 409 ELSE 404)
                 /\ t.res.body = failed
           /\ t.err.kind = "InternalError" =>
                 /\ t.res.status = 500
                 /\ t.res.body = failed

C14_Witness ==
    \E h, g \in Handlers :
        /\ task[h].op = "create" /\ task[h].pc = "done"
        /\ task[h].err.kind = "InvalidSession"
        /\ task[h].res = ErrorResponse(409, "session \"s1\" already exists")
        /\ task[g].op = "delete" /\ task[g].pc = "done"
        /\ task[g].res = SuccessResponse(200, [session |-> "s1"])

\* C15: POST /session with the empty name or a name holding a character
\* other than a letter, a digit, hyphen or underscore is answered 400 with
\* the message "session name should contains only alphanumeric, hyphen or
\* underscore"; the recorder is not called: the store, the open transaction
\* and every history are as before, so the name is still not found; no
\* other POST /session is answered 400 and no such name is ever stored.
InvalidNames == {Empty, Spaced}

C15_State ==
    /\ \A n \in InvalidNames : \A r \in db.session : r.name /= n
    /\ \A n \in InvalidNames \cap world.create : ~Named(db, n)
    /\ \A h \in Handlers :
          (task[h].op = "create" /\ task[h].pc = "done") =>
              (task[h].res.status = 400 <=> task[h].req.session \in InvalidNames)

C15_Step ==
    \A h \in Handlers :
        (task[h].op = "idle" /\ task'[h].op = "create"
            /\ task'[h].req.session \in InvalidNames) =>
            /\ task'[h].pc = "done"
            /\ task'[h].res =
                  [status |-> 400, headers |-> <<>>,
                   body |-> [serverify_error |-> [message |->
                      "session name should contains only alphanumeric, hyphen or underscore"]]]
            /\ task'[h].err = NoError
            /\ db' = db /\ tx' = tx
            /\ GetSessionHistory(db', task'[h].req.session) =
                  [err |-> InvalidSession(NotFoundMsg(task'[h].req.session)), logs |-> <<>>]

C15_InvalidNameRejected == [](C15_State) /\ [][C15_Step]_vars

C15_Witness ==
    \E h, g \in Handlers :
        /\ task[h].op = "create" /\ task[h].pc = "done"
        /\ task[h].req.session = Spaced /\ task[h].res.status = 400
        /\ task[g].op = "get" /\ task[g].pc = "done" /\ task[g].call > task[h].call
        /\ task[g].res = ErrorResponse(404, "session \"a b\" is not found")
        /\ Named(db, Mixed)

\* C16: the INSERT of create_session is one statement, so the calls that run
\* at once take effect one after another.  A create_session returns Ok only
\* when the name is not in the store and then adds its one row; on a name
\* that is in the store it returns InvalidSession and changes nothing; so
\* of the calls on one name that are in flight together at most one has
\* returned Ok unless the session was deleted in between, and when they are
\* the first calls on the name exactly one has returned Ok and the other
\* InvalidSession (a failure of the driver aside); the store never holds
\* two rows for one name.
C16_State ==
    /\ \A r, q \in db.session : r.name = q.name => r = q
    /\ \A h, g \in Handlers :
          (h /= g /\ task[h].op = "create" /\ task[g].op = "create"
              /\ task[h].pc = "done" /\ task[g].pc = "done"
              /\ task[h].req.session = task[g].req.session
              /\ SessionNameIsMatch(task[h].req.session)) =>
              /\ task[h].err.kind \in {"none", "InvalidSession"}
              /\ (task[h].err = NoError /\ task[g].err = NoError) => db.seq.session >= 2
              /\ ({task[h].call, task[g].call} = {1, 2}
                     /\ task[h].err.msg /= DriverErrorMsg
                     /\ task[g].err.msg /= DriverErrorMsg) =>
                    /\ Cardinality({k \in {h, g} : task[k].err = NoError}) = 1
                    /\ Cardinality({k \in {h, g} : task[k].err =
                           InvalidSession(AlreadyExistsMsg(task[k].req.session))}) = 1
                    /\ db.seq.session = 1

C16_Step ==
    \A h \in Handlers :
        (task[h].op = "idle" /\ task'[h].op = "create"
            /\ SessionNameIsMatch(task'[h].req.session)) =>
            LET n == task'[h].req.session
                rows(d) == {r \in d.session : r.name = NumericAffinity(n)}
            IN /\ task'[h].err = NoError =>
                     /\ rows(db) = {} /\ Cardinality(rows(db')) = 1
                     /\ db'.seq.session = db.seq.session + 1
               /\ rows(db) /= {} =>
                     /\ task'[h].err.kind = "InvalidSession"
                     /\ db' = db
               /\ rows(db) = {} =>
                     task'[h].err \in {NoError, InvalidSession(DriverErrorMsg)}
               /\ task'[h].err /= NoError => db' = db
               /\ task'[h].err.kind /= "InternalError"

C16_ConcurrentCreateUnique == [](C16_State) /\ [][C16_Step]_vars

C16_Witness ==
    \E h, g \in Handlers :
        /\ h /= g
        /\ task[h].op = "create" /\ task[h].pc = "done" /\ task[h].req.session = S1
        /\ task[g].op = "create" /\ task[g].pc = "done" /\ task[g].req.session = S1
        /\ task[h].err = NoError /\ task[h].res.status = 201
        /\ task[g].err = InvalidSession(AlreadyExistsMsg(S1))
        /\ db.session = {[id |-> 1, name |-> S1]}

\* In `logs`, the log of call a stands before the log of call b.
PrecedesIn(logs, a, b) ==
    \A i, j \in 1..Len(logs) :
        (logs[i].requested_at = a /\ logs[j].requested_at = b) => i < j

\* C17: if the log_request of call a returned Ok before call b was made,
\* the log of a stands before the log of b in the history of every session,
\* in the rows a get_session_history in progress has fetched and in every
\* history a get_session_history has returned, whatever other calls run
\* between and beside them.
C17_CompletionOrder ==
    \A a, b \in CallIds :
        a \in completed.before[b] =>
            /\ \A n \in AllNames : PrecedesIn(GetSessionHistory(db, n).logs, a, b)
            /\ \A h \in Handlers :
                  task[h].op = "get" =>
                      /\ PrecedesIn(task[h].logs, a, b)
                      /\ (task[h].pc = "done" /\ task[h].err = NoError) =>
                            PrecedesIn(task[h].res.body.histories, a, b)

C17_Witness ==
    \E h \in Handlers :
        /\ task[h].op = "get" /\ task[h].pc = "done" /\ task[h].err = NoError
        /\ Len(task[h].res.body.histories) = 2
        /\ task[h].res.body.histories[1].requested_at
              \in completed.before[task[h].res.body.histories[2].requested_at]

\* The logs that were passed to the log_request calls that returned Ok.
AcceptedLogs == UNION {Range(accepted[n]) : n \in AllNames}

\* No delete_session has removed a session so far.
NoSessionDeleted == db.seq.session = Cardinality(db.session)

\* Calls a and b ran concurrently: neither had returned when the other was
\* made.
Concurrent(a, b) ==
    a /= b /\ a \notin completed.before[b] /\ b \notin completed.before[a]

\* C18: every log in the history of a session is, with its headers and its
\* query entries, the log of one single log_request call, also when the
\* calls ran concurrently; the same holds of every history that
\* get_session_history returns while no session is deleted; and a call that
\* has not committed shows no row.
C18_WholeLogs ==
    /\ \A n \in AllNames :
          \A l \in Range(GetSessionHistory(db, n).logs) : l \in AcceptedLogs
    /\ \A c \in db.request_header \cup db.request_query :
          Cardinality({r \in db.request_log : r.id = c.request_log_id}) = 1
    /\ \A h \in Handlers :
          (task[h].op = "get" /\ task[h].pc = "done" /\ task[h].err = NoError
              /\ NoSessionDeleted) =>
              \A l \in Range(task[h].res.body.histories) : l \in AcceptedLogs
    /\ \A h \in Handlers :
          InLogRequest(task[h]) =>
              \A n \in AllNames :
                  \A l \in Range(GetSessionHistory(db, n).logs) :
                      l.requested_at /= task[h].call

C18_Witness ==
    \E n \in AllNames :
        LET logs == GetSessionHistory(db, n).logs
        IN /\ Len(logs) = 2
           /\ Concurrent(logs[1].requested_at, logs[2].requested_at)
           /\ Len(logs[1].headers) /= Len(logs[2].headers)
           /\ Len(logs[1].query) /= Len(logs[2].query)

\* C19: a get_session_history that returns Ok or InvalidSession returns the
\* history of its session in one state the store was in during the call,
\* whatever log_request and delete_session calls run beside it.
C19_ConsistentSnapshot ==
    \A h \in Handlers :
        (task[h].op = "get" /\ task[h].pc = "done"
            /\ task[h].err.kind /= "InternalError") =>
            LET result == [err |-> task[h].err,
                           logs |-> IF task[h].err = NoError
                                    THEN task[h].res.body.histories
                                    ELSE <<>>]
            IN result \in snaps[h]

\* C20: once the shutdown signal is delivered no request is accepted, and
\* the serving task ends only when every handler that was in flight at the
\* signal has finished: each of them ends with its response produced (and,
\* for a recorded mock request answered by the handler, its log committed)
\* unless its own client hung up; the signal and the end of the serving
\* task themselves change no handler, no transaction and no row.
C20_State ==
    /\ server.phase = "serving" => server.inflight = {}
    /\ server.phase /= "serving" =>
        /\ \A h \in Handlers : task[h].op /= "idle" => task[h].call \in server.inflight
        /\ server.answered \cup server.dropped \subseteq server.inflight
        /\ server.answered \cap server.dropped = {}
    /\ server.phase = "ended" =>
        /\ \A h \in Handlers : task[h].op = "idle"
        /\ tx = NoTx
        /\ server.inflight = server.answered \cup server.dropped

C20_Step ==
    /\ server.phase /= "serving" =>
        /\ calls' = calls
        /\ \A h \in Handlers : task[h].op = "idle" => task'[h].op = "idle"
    /\ server'.phase /= server.phase => UNCHANGED <<db, tx, task, completed>>
    /\ \A h \in Handlers :
        (server.phase = "draining" /\ task[h].op /= "idle" /\ task'[h].op = "idle") =>
            IF task[h].pc = "done"
            THEN /\ task[h].res.status /= NoRes.status
                 /\ task[h].call \in server'.answered
                 /\ (task[h].op = "mock" /\ IsRecorded(task[h].req.session)
                        /\ task[h].invoked) =>
                        task[h].call \in completed.ok
            ELSE task[h].call \in server'.dropped

C20_GracefulShutdown == [](C20_State) /\ [][C20_Step]_vars

\* The serving task has ended after a recorded mock request that was not
\* yet committed at the signal was committed and answered.
C20_Witness ==
    /\ server.phase = "ended"
    /\ server.dropped = {}
    /\ \E c \in server.answered : c \in completed.ok \ server.logged

\* C21: shutdown() delivers the signal once and then waits: it returns only
\* after the serving task has ended, with that task's result; the signal is
\* never delivered again and a returned shutdown() changes nothing more; and
\* when every handler that can run is eventually run, a shutdown() that has
\* sent the signal eventually returns.
C21_State ==
    /\ server.caller = "none" <=> server.phase = "serving"
    /\ server.caller /= "returned" => server.returned = "none"
    /\ server.caller = "returned" =>
        /\ server.phase = "ended"
        /\ server.result \in TaskResults
        /\ server.returned = server.result

C21_Step ==
    /\ (server.caller = "none" /\ server'.caller /= "none") =>
        server'.caller = "waiting" /\ server'.phase = "draining"
    /\ (server.caller = "waiting" /\ server'.caller /= "waiting") =>
        /\ server.phase = "ended"
        /\ server'.caller = "returned"
        /\ server'.returned = server.result
    /\ server.phase /= "serving" =>
        /\ server'.phase /= "serving"
        /\ server'.inflight = server.inflight
        /\ server'.logged = server.logged
    /\ server.caller = "returned" => server' = server

C21_ShutdownReturns ==
    /\ [](C21_State)
    /\ [][C21_Step]_vars
    /\ (server.caller = "waiting") ~> (server.caller = "returned")

\* shutdown() has returned the serving task's error after a drain that had
\* handlers in flight.
C21_Witness ==
    /\ server.caller = "returned"
    /\ server.returned = "Err"
    /\ server.inflight /= {}

(***************************************************************************)
(* Properties of the paging handler                                        *)
(***************************************************************************)
\* The template with every "$_contents" string replaced by `contents`.
RECURSIVE WithContents(_, _)
WithContents(template, contents) ==
    CASE template.jt = "str" -> IF template.jv = ContentsKey THEN contents ELSE template
      [] template.jt = "arr" ->
            JArr([i \in 1..Len(template.jv) |-> WithContents(template.jv[i], contents)])
      [] template.jt = "obj" ->
            JObj([i \in 1..Len(template.jv) |->
                     <<template.jv[i][1], WithContents(template.jv[i][2], contents)>>])
      [] OTHER -> template

Replied == lab.kind = "paging" /\ lab.pc = "replied"

\* The configured page_origin, 1 when absent.
ConfiguredOrigin == IF lab.config.page_origin.some THEN lab.config.page_origin.n ELSE 1

\* The page and per_page parameters of the request, when they are written
\* as unsigned integers.
GivenPage == LET v == MapGet(lab.query, "page")
             IN IF v.some THEN ParseUsize(v.value) ELSE None
GivenPerPage == LET v == MapGet(lab.query, "per_page")
                IN IF v.some THEN ParseUsize(v.value) ELSE None

\* items[offset : offset + per_page]
Window(offset, per_page) ==
    JArr(SubSeq(lab.config.items, offset + 1,
                Min(offset + per_page, Len(lab.config.items))))

\* The response with the handler's status whose body shows `contents`.
Shows(contents) ==
    /\ lab.reply.ok
    /\ lab.reply.status = lab.config.status
    /\ lab.reply.body = WithContents(lab.config.template, contents)

\* C22: a paging handler answers a request that gives page >= page_origin
\* and per_page with the window items[offset : offset + per_page], where
\* offset = (page - page_origin) * per_page and page_origin is the
\* configured value (1 when absent); the window is shorter or empty past the
\* end of the items and keeps their order.
C22_PagingWindow ==
    (Replied /\ GivenPage.some /\ GivenPerPage.some
        /\ GivenPage.n >= ConfiguredOrigin) =>
        Shows(Window((GivenPage.n - ConfiguredOrigin) * GivenPerPage.n, GivenPerPage.n))

\* C23: a page that is absent or not an unsigned integer counts as
\* page_origin, a per_page that is absent or not an unsigned integer as
\* default_per_page, and the request is answered with the handler's status
\* and the window of those values.
C23_PagingDefaults ==
    (Replied /\ (~GivenPage.some \/ ~GivenPerPage.some)) =>
        LET page == IF GivenPage.some THEN GivenPage.n ELSE ConfiguredOrigin
            per_page == IF GivenPerPage.some THEN GivenPerPage.n
                        ELSE lab.config.default_per_page
        IN page >= ConfiguredOrigin =>
               Shows(Window((page - ConfiguredOrigin) * per_page, per_page))

\* C24: a request whose page is below page_origin is answered with the
\* empty window, and the handler does not panic.
C24_PageBelowOrigin ==
    (Replied /\ GivenPage.some /\ GivenPage.n < ConfiguredOrigin) =>
        /\ lab.reply /= PanicReply
        /\ Shows(JArr(<<>>))

\* C25: the values respond passes to expand bind every value placeholder
\* that the handler's template was parsed with, so expansion meets no
\* unbound placeholder, and every "$_contents" leaf of the template is
\* recorded as one.
C25_ContentsBound ==
    (lab.kind = "paging" /\ lab.pc \in {"ready", "replied"}) =>
        LET paths == lab.handler.template.placeholder_paths
        IN /\ \A i \in 1..Len(paths) :
                  paths[i].leaf.kind = "value" =>
                      MapGet(RespondValues(JArr(<<>>)), paths[i].leaf.of).some
           /\ WithContents(lab.config.template, JNull) /= lab.config.template =>
                  paths /= <<>>

\* The values the response carries for the header `name`, in order.
HeaderValues(headers, name) ==
    LET at == SelectSeq([i \in 1..Len(headers) |-> i],
                        LAMBDA i : headers[i][1] = name)
    IN [j \in 1..Len(at) |-> headers[at[j]][2]]

\* C26: a paging response carries content-type: application/json when the
\* stored headers have no content-type, and only the stored value when they
\* have one.
C26_PagingContentType ==
    (Replied /\ lab.reply.ok) =>
        LET stored == HeaderValues(LowerNames(lab.config.headers), "content-type")
        IN HeaderValues(lab.reply.headers, "content-type") =
               IF stored = <<>> THEN <<"application/json">> ELSE stored

(***************************************************************************)
(* Properties of JsonTemplate                                              *)
(***************************************************************************)
Nowhere == [jt |-> "nowhere", jv |-> <<>>]

\* The paths of all positions of a JSON value, the root included.
RECURSIVE Positions(_)
Positions(json) ==
    {<<>>} \cup
    CASE json.jt = "arr" ->
           UNION {{<<IndexStep(i)>> \o q : q \in Positions(json.jv[i])} :
                      i \in 1..Len(json.jv)}
      [] json.jt = "obj" ->
           UNION {{<<FieldStep(json.jv[i][1])>> \o q : q \in Positions(json.jv[i][2])} :
                      i \in 1..Len(json.jv)}
      [] OTHER -> {}

\* The value at a position.
RECURSIVE At(_, _)
At(json, steps) ==
    IF steps = <<>> THEN json
    ELSE LET step == Head(steps)
         IN IF step.k = "index"
            THEN IF json.jt = "arr" /\ step.idx \in 1..Len(json.jv)
                 THEN At(json.jv[step.idx], Tail(steps)) ELSE Nowhere
            ELSE IF json.jt = "obj" /\ ObjGet(json.jv, step.key).some
                 THEN At(ObjGet(json.jv, step.key).value, Tail(steps)) ELSE Nowhere

IsPrefix(p, q) == Len(p) <= Len(q) /\ SubSeq(q, 1, Len(p)) = p

\* What a container is made of, its members aside.
Shape(json) ==
    CASE json.jt = "arr" -> <<"arr", Len(json.jv)>>
      [] json.jt = "obj" -> <<"obj", [i \in 1..Len(json.jv) |-> json.jv[i][1]]>>
      [] OTHER -> <<"leaf", json>>

Binds(values, names) == \A i \in 1..Len(names) : MapGet(values, names[i]).some

WellFormed(text) == \A i \in 1..Len(text) : text[i] \notin UnclosedTags

Parsed == lab.kind = "template" /\ lab.pc \in {"ready", "expanding"}

Recorded == {lab.tpl.placeholder_paths[i] : i \in 1..Len(lab.tpl.placeholder_paths)}

\* The result of an expand call holds the replacement at every recorded
\* position and the template everywhere else.
Framed(values, result) ==
    /\ \A p \in Recorded :
           At(result, p.steps) =
               IF p.leaf.kind = "value" THEN MapGet(values, p.leaf.of).value
               ELSE Render(p.leaf.of, values)
    /\ \A q \in Positions(lab.input.template) :
           IF \E p \in Recorded : IsPrefix(p.steps, q) THEN TRUE
           ELSE IF \E p \in Recorded : IsPrefix(q, p.steps)
           THEN Shape(At(result, q)) = Shape(At(lab.input.template, q))
           ELSE At(result, q) = At(lab.input.template, q)

C28_TextLeafSingleKey ==
    Parsed =>
        \A p \in Recorded :
            p.leaf.kind = "text" =>
                LET object == At(lab.input.template, p.steps)
                IN /\ object.jt = "obj"
                   /\ Len(object.jv) = 1
                   /\ object.jv[1] = <<<<"$">> \o lab.input.text, JStr(p.leaf.of)>>

Letters ==
    {"a", "b", "c", "d", "e", "f", "g", "h", "i", "j", "k", "l", "m", "n", "o",
     "p", "q", "r", "s", "t", "u", "v", "w", "x", "y", "z",
     "A", "B", "C", "D", "E", "F", "G", "H", "I", "J", "K", "L", "M", "N", "O",
     "P", "Q", "R", "S", "T", "U", "V", "W", "X", "Y", "Z"}

MatchesPattern(name) ==
    /\ name /= <<>>
    /\ name[1] \in Letters \cup {"_"}
    /\ \A i \in 2..Len(name) : name[i] \in Letters \cup Digits \cup {"_"}

\* The names in the order parse checks them.
CheckedNames == Append(lab.input.names, lab.input.text)

NameFails(i) ==
    \/ CheckedNames[i] = <<>>
    \/ ~MatchesPattern(CheckedNames[i])
    \/ \E j \in 1..(i - 1) : CheckedNames[j] = CheckedNames[i]

\* C29: parse checks the value placeholder names in order and then the text
\* placeholder name, and fails at the first name that is empty, does not
\* match ^[A-Za-z_][A-Za-z0-9_]*$ or equals an earlier name, with the message
\* of the first of these three checks that the name fails; it succeeds
\* exactly when no name fails.
C29_ParseValidation ==
    (lab.kind = "template" /\ lab.pc /= "new") =>
        LET failing == {i \in 1..Len(CheckedNames) : NameFails(i)}
        IN IF failing = {}
           THEN lab.tpl.ok /\ lab.tpl.template = lab.input.template
           ELSE LET first == CHOOSE i \in failing : \A j \in failing : i <= j
                    name == CheckedNames[first]
                IN /\ ~lab.tpl.ok
                   /\ lab.pc = "rejected"
                   /\ lab.tpl.msg =
                          IF name = <<>>
                          THEN [text |-> "placeholder name cannot be empty", name |-> <<>>]
                          ELSE IF ~MatchesPattern(name)
                          THEN [text |-> "invalid placeholder name", name |-> name]
                          ELSE [text |-> "duplicated placeholder name", name |-> name]

\* parse refused the text placeholder "abc" after the value placeholders
\* "abc" and "def".
C29_Witness ==
    /\ lab.kind = "template"
    /\ lab.pc = "rejected"
    /\ lab.input.names = <<<<"a", "b", "c">>, <<"d", "e", "f">>>>
    /\ lab.input.text = <<"a", "b", "c">>
    /\ lab.tpl.msg = DuplicatedPlaceholderMsg(<<"a", "b", "c">>)

C30_State ==
    Parsed =>
        \A n \in 1..Len(lab.calls) :
            /\ \A m \in 1..Len(lab.calls) :
                   lab.calls[m].values = lab.calls[n].values
                       => lab.calls[m].result = lab.calls[n].result
            /\ lab.calls[n].result =
                   Expand(Parse(lab.input.template, lab.input.names, lab.input.text),
                          lab.calls[n].values)

C30_Step ==
    (Parsed /\ lab'.kind = "template") =>
        /\ lab'.tpl.template = lab.tpl.template
        /\ lab'.tpl.placeholder_paths = lab.tpl.placeholder_paths

\* C30: expand never changes the stored template or its placeholder paths,
\* two expand calls with equal values return equal results, and the result of
\* a call is the one a first call on the template as parsed returns for the
\* same values, whatever the values of the calls made before it.
C30_ExpandPure == [](C30_State) /\ [][C30_Step]_vars

\* Two expand calls with different values returned different results for
\* the array template.
C30_Witness ==
    /\ Parsed
    /\ lab.input.template = TplRows
    /\ Len(lab.calls) = 2
    /\ lab.calls[1].result /= Panic
    /\ lab.calls[2].result /= Panic
    /\ lab.calls[1].result /= lab.calls[2].result
    /\ lab.calls[1].result /= lab.input.template

(***************************************************************************)
(* Properties of parse_config                                              *)
(***************************************************************************)
ConfigDone == lab.kind = "config" /\ lab.pc = "done"

\* The endpoints of the document, outer then inner.
Written ==
    LET RECURSIVE From(_)
        From(paths) ==
            IF paths = <<>> THEN <<>>
            ELSE LET p == Head(paths)
                 IN [i \in 1..Len(p.methods) |-> <<p.path, p.methods[i]>>] \o From(Tail(paths))
    IN From(lab.doc)

KnownMethod(key) == key \in {"get", "post", "put", "delete", "patch"}

\* parse_config accepts the document exactly when every status is in
\* low..high (the method keys being ones of Method).
StatusRangeIs(low, high) ==
    ConfigDone =>
        /\ (\E i \in 1..Len(Written) : Written[i][2].response.status \notin low..high)
               => (~lab.result.ok /\ lab.result.endpoints = <<>>)
        /\ (\A i \in 1..Len(Written) :
                /\ KnownMethod(Written[i][2].method)
                /\ Written[i][2].response.status \in low..high)
               => lab.result.ok

\* C31 as stated: StatusCode construction succeeds exactly for the values of
\* [100, 599], so parse_config rejects a configuration with a status outside
\* that range and accepts one inside it.
C31_StatusRange599 == StatusRangeIs(100, 599)

\* C31: StatusCode construction from a 16-bit unsigned integer succeeds
\* exactly for the values of [100, 999] and fails for every other value, so
\* parse_config rejects a configuration with a status outside that range.
C31_StatusRange == StatusRangeIs(100, 999)

\* parse_config accepted the one-endpoint document whose status is 600.
C31_Witness ==
    /\ ConfigDone
    /\ Len(Written) = 1
    /\ Written[1][2].response.status = 600
    /\ lab.result.ok
    /\ Len(lab.result.endpoints) = 1
    /\ lab.result.endpoints[1].response.status = 600

\* serde reads the endpoint: a method of Method and a status that a u16 holds.
Readable(i) ==
    /\ KnownMethod(Written[i][2].method)
    /\ Written[i][2].response.status <= U16Max

Builds(i) == Written[i][2].response.status \in 100..999

First(S) == CHOOSE i \in S : \A j \in S : i <= j

\* The route definition of the i-th endpoint of the document.
IsRouteOf(endpoint, i) ==
    /\ endpoint.path = Written[i][1]
    /\ MethodToString(endpoint.method) = Written[i][2].method
    /\ endpoint.response.type = Written[i][2].response.type
    /\ endpoint.response.status = Written[i][2].response.status

\* C32: parse_config returns either the complete list of route definitions,
\* one per (path, method) of the document in outer-then-inner order, or a
\* single error and no route at all; for a document that deserialises, the
\* error is that of the first endpoint in document order that fails to
\* build, and for one that does not, that of the first endpoint serde cannot
\* read.
C32_AllOrFirstError ==
    ConfigDone =>
        LET all == 1..Len(Written)
            unreadable == {i \in all : ~Readable(i)}
            unbuilt == {i \in all : ~Builds(i)}
        IN IF unreadable = {} /\ unbuilt = {}
           THEN /\ lab.result.ok
                /\ lab.result.err = NoConfigError
                /\ Len(lab.result.endpoints) = Len(Written)
                /\ \A i \in all : IsRouteOf(lab.result.endpoints[i], i)
           ELSE /\ ~lab.result.ok
                /\ lab.result.endpoints = <<>>
                /\ lab.result.err.text /= ""
                /\ lab.result.err.at =
                       IF unreadable /= {} THEN First(unreadable) ELSE First(unbuilt)
                /\ (unreadable = {}) => lab.result.err.text = "invalid status code"

\* parse_config returned the error of the second of three endpoints, the
\* first of which builds and the third of which fails too.
C32_Witness ==
    /\ ConfigDone
    /\ Len(Written) = 3
    /\ \A i \in 1..3 : Readable(i)
    /\ Builds(1) /\ ~Builds(2) /\ ~Builds(3)
    /\ Written[3][1] /= Written[1][1]
    /\ lab.result.err.at = 2
    /\ lab.result.endpoints = <<>>

(***************************************************************************)
(* Properties of the mock endpoints, continued                             *)
(***************************************************************************)
WrongMethod(t) == t.op = "mock" /\ RouteOf(t.req).method /= t.req.method

C33_State ==
    /\ \A h \in Handlers :
           WrongMethod(task[h]) =>
               /\ task[h].pc = "done"
               /\ task[h].res.status = 405
               /\ ~task[h].invoked
               /\ RowsOfCall(db, task[h].call) = {}
               /\ tx.owner /= h
               /\ task[h].call \notin completed.ok
    /\ \A r \in db.request_log :
           \E route \in Routes :
               /\ MethodToString(route.method) = r.method
               /\ JoinPath(route.segs) = r.path

C33_Step ==
    \A h \in Handlers :
        (task[h].op = "idle" /\ WrongMethod(task'[h])) => UNCHANGED <<db, tx, accepted>>

AfterCall == lab.kind = "recorder" /\ lab.op /= "none"

\* The logs of the session, as get_session_history reads them from a store.
HistoryIn(d, name) == GetSessionHistory(d, name).logs

\* C34: request logs are append-only: a log that is in a session's history
\* is still there, unchanged and at its place, after every call of init,
\* create_session, log_request, get_session_history and of delete_session
\* for another session.
C34_AppendOnly ==
    AfterCall =>
        \A n \in RecorderNames :
            (lab.op = "delete_session" /\ lab.name = n)
            \/ IsPrefix(HistoryIn(lab.prev, n), HistoryIn(db, n))

\* C35: create_session returns InvalidSession only when the name already
\* exists and InternalError for every other failure of the store, so POST
\* /session answers 409 only for a duplicate name and 500 for any other
\* failure of the recorder.
C35_CreateErrorKinds ==
    \A h \in Handlers :
        (task[h].op = "create" /\ task[h].pc = "done" /\ task[h].err /= NoError) =>
            IF task[h].err.msg = AlreadyExistsMsg(task[h].req.session)
            THEN task[h].err.kind = "InvalidSession" /\ task[h].res.status = 409
            ELSE task[h].err.kind = "InternalError" /\ task[h].res.status = 500

\* C36: the body recorded for a mock request is the full request body: for
\* a body that arrives as any number of chunks, the recorded text is the
\* UTF-8-lossy decoding of the concatenation of all chunks, not of a prefix.
C36_FullBodyRecorded ==
    \A h \in Handlers :
        (IsMock(task[h]) /\ (InLogRequest(task[h]) \/ task[h].pc = "committed")) =>
            /\ task[h].log.body = Utf8Lossy(FullBody(task[h].req.chunks))
            /\ \A r \in RowsOfCall(db, task[h].call) :
                   r.body = Utf8Lossy(FullBody(task[h].req.chunks))

\* The extraction the handler runs on the request fails: the session
\* segment, or for a recorded session a header value or the body.
ExtractionFails(req) ==
    \/ "%FF" \in Range(req.session)
    \/ /\ req.session /= Default
       /\ \/ \E i \in 1..Len(req.headers) : req.headers[i][2] \in OpaqueHeaderValues
          \/ (req.chunks /= <<>> /\ ~Head(req.chunks).ok)

FailedExtraction(t) ==
    /\ t.op = "mock"
    /\ RouteOf(t.req).method = t.req.method
    /\ ExtractionFails(t.req)

C37_State ==
    \A h \in Handlers :
        FailedExtraction(task[h]) =>
            /\ task[h].pc = "done"
            /\ task[h].res.status = 500
            /\ task[h].res.headers = <<>>
            /\ task[h].res.body \in
                   {"Invalid UTF-8 in path", "failed to convert header to a str", "body error"}
            /\ ~task[h].invoked
            /\ RowsOfCall(db, task[h].call) = {}
            /\ tx.owner /= h
            /\ task[h].call \notin completed.ok

C37_Step ==
    \A h \in Handlers :
        /\ (task[h].op = "idle" /\ FailedExtraction(task'[h]))
               => UNCHANGED <<db, tx, accepted, server>>
        /\ (FailedExtraction(task[h]) /\ task'[h] /= task[h])
               => (task'[h] = IdleTask /\ UNCHANGED <<db, tx, accepted>>
                   /\ server'.phase = server.phase)

\* C37: a mock request whose extraction fails (session path segment, query
\* string, a header value that is not UTF-8, or a body read error) is
\* answered 500 with the error message as plain-text body, logs nothing in
\* the store and does not invoke the response handler, and the server goes
\* on serving: the handler task ends idle, ready for the next request.
C37_ExtractionFailure == [](C37_State) /\ [][C37_Step]_vars

\* A request of an existing session whose header value did not convert was
\* answered 500, and a request received after it has been recorded.
C37_Witness ==
    \E h, g \in Handlers :
        /\ FailedExtraction(task[h])
        /\ SessionExists(db, task[h].req.session)
        /\ task[h].res.status = 500
        /\ task[h].res.body = "failed to convert header to a str"
        /\ task[g].op = "mock"
        /\ task[g].call > task[h].call
        /\ task[g].pc = "committed"

\* A mock request of a recorded session that the response handler answered.
Answered(t) == IsMock(t) /\ t.pc = "done" /\ t.invoked /\ IsRecorded(t.req.session)

C38_State ==
    /\ \A h \in Handlers :
           Answered(task[h]) =>
               /\ task[h].call \in completed.ok
               /\ NoSessionDeleted => RowsOfCall(db, task[h].call) /= {}
    /\ \A g \in Handlers :
           (task[g].op = "get" /\ task[g].pc = "done" /\ task[g].res.status = 200) =>
               \A c \in completed.before[task[g].call] :
                   \A r \in RowsOfCall(db, c) :
                       r.session_id = task[g].sid =>
                           \E i \in 1..Len(task[g].res.body.histories) :
                               task[g].res.body.histories[i].requested_at = c

C38_Step ==
    /\ completed.ok \subseteq completed'.ok
    /\ \A h \in Handlers :
           (task[h].op = "idle" /\ task'[h].op = "get") =>
               completed'.before[task'[h].call] = completed.ok

\* C38: recording precedes responding: when a mock request to an existing
\* session other than "default" gets a response of the response handler, a
\* success or the handler's own 500, its log is committed already; a
\* get_session_history that starts after that returns the log (as long as
\* the log's session has not been deleted).
C38_RecordedBeforeResponse == [](C38_State) /\ [][C38_Step]_vars

\* A history request made after a mock request was committed and answered
\* has returned that request's log.
C38_Witness ==
    \E g \in Handlers :
        /\ task[g].op = "get" /\ task[g].pc = "done" /\ task[g].res.status = 200
        /\ \E c \in completed.before[task[g].call] :
               /\ \A h \in Handlers : task[h].call /= c
               /\ \E i \in 1..Len(task[g].res.body.histories) :
                      task[g].res.body.histories[i].requested_at = c

\* The rows that hang on a row that is no longer in the store.
Orphans(d) ==
    {r \in d.request_log : \A s \in d.session : s.id /= r.session_id}
        \cup {c \in d.request_header \cup d.request_query :
                  \A r \in d.request_log : r.id /= c.request_log_id}

\* C39: a session that is deleted and created again under the same name
\* starts with an empty history: no log, header or query row written before
\* the delete is returned for (or left in the store under) the re-created
\* session, and the logs recorded after the re-creation are returned in the
\* order of their recording.
C39_RecreatedSessionIsFresh ==
    AfterCall =>
        /\ Orphans(db) = {}
        /\ (lab.op = "create_session" /\ lab.out.err = NoError) =>
               HistoryIn(db, lab.name) = <<>>
        /\ \A n \in RecorderNames :
               SessionExists(db, n) =>
                   /\ HistoryIn(db, n) = accepted[n]
                   /\ \A i \in 1..Len(accepted[n]) :
                          /\ accepted[n][i].requested_at > lab.created[n]
                          /\ \A j \in 1..(i - 1) :
                                 accepted[n][j].requested_at < accepted[n][i].requested_at

\* The only session ever created was logged to, deleted, created again and
\* logged to again, and its history is read: it holds the later log alone.
C39_Witness ==
    /\ AfterCall
    /\ lab.op = "get_session_history"
    /\ lab.out.err = NoError
    /\ Len(lab.out.logs) = 1
    /\ \A n \in RecorderNames \ {lab.name} : lab.created[n] = 0
    /\ db.seq.session = 2
    /\ db.seq.request_log = 2
    /\ lab.out.logs[1].requested_at > lab.created[lab.name]

\* C40: the paging offset arithmetic never overflows or panics: a request
\* whose page and per_page are written as unsigned machine integers, the
\* largest one and per_page = 0 included, gets a response, and the response
\* shows the empty window when the offset lies past the end of the items.
C40_OffsetNeverOverflows ==
    (Replied /\ GivenPage.some /\ GivenPerPage.some) =>
        /\ lab.reply /= PanicReply
        /\ (GivenPage.n >= ConfiguredOrigin
               /\ (GivenPage.n - ConfiguredOrigin) * GivenPerPage.n >= Len(lab.config.items)) =>
               Shows(JArr(<<>>))
====
